---- MODULE Spec2Model ----
(***************************************************************************)
(* Task lifecycle engine of the algorithm service: the Process Manager     *)
(* (core/process_manager.py), the Task Dispatcher and its per-task runner  *)
(* (core/dispatcher.py), the Progress Manager's status map and DB writer   *)
(* (infrastructure/progress_manager.py) and the Task Store                 *)
(* (infrastructure/task_store.py).                                         *)
(*                                                                         *)
(* A task id is supplied by the client and is unique per submission        *)
(* (process_manager.py:81 "Unique task identifier for tracking"), so a     *)
(* task id also names the one dispatch call, the one worker (subprocess or *)
(* pool thread) and the one monitor thread that belong to it.              *)
(***************************************************************************)
EXTENDS Integers, Sequences, FiniteSets, TLC

\* ---------------------------------------------------------------- bounds
MaxTasks == 3          \* task ids handed to ProcessManager.submit
MaxWorkers == 2        \* _max_workers = max(1, cpu_count() - 2) of the host
MaxCancels == 2        \* cancel_task calls made by clients, one after another
MaxReports == 1        \* report_progress calls made inside algo.execute

Tasks == 1..MaxTasks
Cancels == 1..MaxCancels
DispTasks == {1}       \* task ids the dispatcher specification submits
MaxAttach == 2         \* WatchTaskProgress calls made by the client
MaxRegs == 4           \* AlgorithmRegistry.register calls
MaxCalls == 3          \* TaskStore calls applied to one task id
MaxStarters == 3       \* concurrent callers of start_db_writer
MaxEvents == 3         \* finish events put on the DB queue
MaxKillers == 2        \* concurrent callers of ProcessManager.cancel
Killers == 1..MaxKillers
MaxUsers == 2          \* threads that make the first use of a singleton
Users == 1..MaxUsers
Singletons == {"HardwareManager", "ProcessManager", "ProgressManager"}
Starters == 1..MaxStarters
SoloCalls == {1}       \* cancel_task calls made where clients call once

Terminal == {"SUCCESS", "FAILED", "CANCELLED"}

VARIABLES
    \* ---- ProcessManager (process_manager.py:58-63)
    semaphore,       \* free slots of _semaphore
    processes,       \* keys of _processes (tracked task ids)
    cancelRequested, \* tasks whose ManagedProcess.cancel_requested is True
    shutdownFlag,    \* _shutdown
    procState,       \* per task: OS process "none" | "alive" | "exited"
    dying,           \* processes with a fatal signal pending
    monitor,         \* per task: monitor thread "none"|"start"|"join"|"done"
    escalator,       \* tasks with an _escalate thread sleeping
    callPc,          \* per task: position of the call that submits it
                     \* (ProcessManager.submit, alone or inside dispatch)
    subRet,          \* per task: submit's return "none" | "true" | "false"
    \* ---- history of the slot protocol (not program state)
    waited,          \* submit calls that blocked on the semaphore
    acquired,        \* per task: semaphore acquisitions made by its submit
    released         \* per task: semaphore releases made for its submit

VARIABLES
    \* ---- HardwareManager (resource_manager.py:28-33)
    hasGpu,          \* has_gpu
    \* ---- ProgressManager (progress_manager.py:20-28)
    statusMap,       \* _status: task id -> entry (status "" = no entry)
    dbQueue,         \* _db_queue: finish events waiting for the DB writer
    \* ---- TaskStore (task_store.py:55-66)
    store,           \* tasks table: task id -> row (status "" = no row)
    \* ---- ResultReporterClient: results given to send_result, in order
    sink,
    \* ---- TaskDispatcher (dispatcher.py:216)
    tasksMap,        \* keys of _tasks (futures of thread-pool jobs)
    future,          \* per task: "none"|"pending"|"running"|"done"|"cancelled"
    \* ---- per-task runner (_run_task_in_subprocess / _safe_runner)
    runner,          \* per task: position of the runner
    ctxBound,        \* runners whose local ctx has been assigned
    reports,         \* per task: report_progress calls made by algo.execute
    \* ---- cancel_task calls and the threads they start
    cancel,          \* per call: record of the call's locals and position
    watcher,         \* per call: position of its _watch_termination thread
    \* ---- history of the cancellation protocol (not program state)
    killMarked,      \* tasks marked CANCELLED after a KILLED outcome
    coopReq,         \* tasks whose running runner was sent CANCEL_REQUESTED
    late             \* runners that began a report_progress call after that

VARIABLES
    \* ---- ProgressManager._queues (progress_manager.py:21)
    queueKeys,       \* keys of _queues
    queues,          \* per task: events waiting in _queues[task]
    runnerQueue,     \* tasks whose runner holds the queue that _queues holds
    \* ---- the WatchTaskProgress call (grpc_server.py:61-76)
    stream,          \* its position, task, last event, and what it attached to
    \* ---- history of the queue now held in _queues (not program state)
    sent,            \* per task: events put on it, in the order of the puts
    got              \* per task: events q.get returned from it, in order

VARIABLES
    \* ---- TaskStore alone (task_store.py:51-74): the tasks table
    table,           \* set of rows
    calls,           \* history: per task id, the calls applied to it, in order
    \* ---- AlgorithmRegistry alone (framework.py:40-44)
    registry,        \* _registry: sequence of <<code, instance>> items
    regLog,          \* history: the register calls made, in order
    \* ---- ProgressManager.start_db_writer alone (progress_manager.py:221-280)
    dbThread,        \* _db_thread: 0 (None) or a thread
    threads,         \* per thread: "none" | "created" | "alive"
    starter          \* per caller of start_db_writer: its position and thread

VARIABLES
    \* ---- the DB writer's _worker alone (progress_manager.py:229-272)
    writer,          \* its position, the event it holds and its attempts
    dbStats,         \* _db_stats: the success and fail counters
    \* ---- history of the DB queue (not program state)
    puts,            \* events put on the DB queue
    tried,           \* store calls made for the event the writer holds
    handled          \* events the writer is done with, with their outcome

VARIABLES
    \* ---- ProcessManager.cancel step by step (process_manager.py:158-270)
    killer,          \* per caller of cancel: its position, locals and return
    escKill,         \* tasks whose _escalate thread found the process alive
    \* ---- history of the signals (not program state)
    signalled        \* os.kill calls that returned: task, signal, and the
                     \* state the process was in

VARIABLES
    \* ---- the singletons (resource_manager.py:16-33,
    \*      process_manager.py:41-63, progress_manager.py:18-66)
    single,          \* per class: _instance (0 = None), the objects whose
                     \* _initialized is set, and history: objects made and
                     \* runs of the code that creates the instance state
    user             \* per class and thread: position and object in hand

pmVars == <<semaphore, processes, cancelRequested, shutdownFlag, procState,
            dying, monitor, escalator, callPc, subRet>>
pmHist == <<waited, acquired, released>>
dispVars == <<hasGpu, statusMap, dbQueue, store, sink, tasksMap, future>>
runVars == <<runner, ctxBound, reports>>
cancelVars == <<cancel, watcher>>
dispHist == <<killMarked, coopReq, late>>
watchVars == <<queueKeys, queues, runnerQueue, stream>>
watchHist == <<sent, got>>
writerVars == <<writer, dbStats, puts, tried, handled>>
signalVars == <<killer, escKill, signalled>>
singleVars == <<single, user>>
libVars == <<table, calls, registry, regLog, dbThread, threads, starter,
             writerVars, signalVars, singleVars>>
vars == <<pmVars, pmHist, dispVars, runVars, cancelVars, dispHist, watchVars,
          watchHist, libVars>>

NoDisp == UNCHANGED <<dispVars, runVars, cancelVars, dispHist, watchVars,
                      watchHist, libVars>>
NoPM == UNCHANGED <<pmVars, pmHist>>

\* ======================================================================
\*  Process Manager
\* ======================================================================

\* ProcessManager.__init__: empty map, semaphore at _max_workers, not shut down.
PMInit ==
    /\ semaphore = MaxWorkers
    /\ processes = {}
    /\ cancelRequested = {}
    /\ shutdownFlag = FALSE
    /\ procState = [t \in Tasks |-> "none"]
    /\ dying = {}
    /\ monitor = [t \in Tasks |-> "none"]
    /\ escalator = {}
    /\ callPc = [t \in Tasks |-> "idle"]
    /\ subRet = [t \in Tasks |-> "none"]
    /\ waited = {}
    /\ acquired = [t \in Tasks |-> 0]
    /\ released = [t \in Tasks |-> 0]

\* Process.is_alive(): true until the OS process has exited (a process with a
\* fatal signal pending is still alive).
IsAlive(t) == procState[t] = "alive"

\* ProcessManager.is_running
is_running(t) == t \in processes /\ IsAlive(t)

\* ProcessManager.get_running_tasks
get_running_tasks == {t \in processes : IsAlive(t)}

\* A submit with a seeded fault: it rejects when no slot is free instead of
\* going on to the blocking acquire.
SubmitEnter_RejectAtCapacity(t) ==
    /\ callPc[t] = "enter"
    /\ IF shutdownFlag \/ semaphore = 0
       THEN /\ callPc' = [callPc EXCEPT ![t] = "returned"]
            /\ subRet' = [subRet EXCEPT ![t] = "false"]
            /\ UNCHANGED <<semaphore, waited, acquired>>
       ELSE /\ semaphore' = semaphore - 1
            /\ acquired' = [acquired EXCEPT ![t] = @ + 1]
            /\ callPc' = [callPc EXCEPT ![t] = "acquired"]
            /\ UNCHANGED <<subRet, waited>>
    /\ UNCHANGED <<processes, cancelRequested, shutdownFlag, procState, dying,
                   monitor, escalator, released>>
    /\ NoDisp

\* submit, lines 88-101: the shutdown check, then the non-blocking acquire;
\* when it fails the caller goes on to the blocking acquire.
SubmitEnter(t) ==
    /\ callPc[t] = "enter"
    /\ IF shutdownFlag
       THEN /\ callPc' = [callPc EXCEPT ![t] = "returned"]
            /\ subRet' = [subRet EXCEPT ![t] = "false"]
            /\ UNCHANGED <<semaphore, waited, acquired>>
       ELSE IF semaphore > 0
       THEN /\ semaphore' = semaphore - 1
            /\ acquired' = [acquired EXCEPT ![t] = @ + 1]
            /\ callPc' = [callPc EXCEPT ![t] = "acquired"]
            /\ UNCHANGED <<subRet, waited>>
       ELSE /\ callPc' = [callPc EXCEPT ![t] = "wait"]
            /\ waited' = waited \cup {t}
            /\ UNCHANGED <<semaphore, subRet, acquired>>
    /\ UNCHANGED <<processes, cancelRequested, shutdownFlag, procState, dying,
                   monitor, escalator, released>>
    /\ NoDisp

\* submit, line 101: the blocking acquire returns once a slot is free.
SubmitWake(t) ==
    /\ callPc[t] = "wait"
    /\ semaphore > 0
    /\ semaphore' = semaphore - 1
    /\ acquired' = [acquired EXCEPT ![t] = @ + 1]
    /\ callPc' = [callPc EXCEPT ![t] = "acquired"]
    /\ UNCHANGED <<processes, cancelRequested, shutdownFlag, procState, dying,
                   monitor, escalator, subRet, waited, released>>
    /\ NoDisp

\* submit, lines 103-126: the process starts, its handle is recorded, the
\* monitor thread is started and submit returns True.
SubmitStartPM(t) ==
    /\ callPc[t] = "acquired"
    /\ procState' = [procState EXCEPT ![t] = "alive"]
    /\ processes' = processes \cup {t}
    /\ monitor' = [monitor EXCEPT ![t] = "start"]
    /\ callPc' = [callPc EXCEPT ![t] = "returned"]
    /\ subRet' = [subRet EXCEPT ![t] = "true"]
    /\ UNCHANGED <<semaphore, cancelRequested, shutdownFlag, dying, escalator,
                   waited, acquired, released>>

\* submit's error path with a seeded fault: the slot is not given back.
SubmitStartFail_NoRelease(t) ==
    /\ callPc[t] = "acquired"
    /\ callPc' = [callPc EXCEPT ![t] = "returned"]
    /\ subRet' = [subRet EXCEPT ![t] = "false"]
    /\ UNCHANGED <<semaphore, released, processes, cancelRequested, shutdownFlag,
                   procState, dying, monitor, escalator, waited, acquired>>

\* submit, lines 127-130: Process(...).start() raises; the slot is given back
\* and submit returns False.
SubmitStartFailPM(t) ==
    /\ callPc[t] = "acquired"
    /\ semaphore' = semaphore + 1
    /\ released' = [released EXCEPT ![t] = @ + 1]
    /\ callPc' = [callPc EXCEPT ![t] = "returned"]
    /\ subRet' = [subRet EXCEPT ![t] = "false"]
    /\ UNCHANGED <<processes, cancelRequested, shutdownFlag, procState, dying,
                   monitor, escalator, waited, acquired>>

\* _monitor_process, lines 134-139: look the handle up; return when absent.
MonitorLookup(t) ==
    /\ monitor[t] = "start"
    /\ monitor' = [monitor EXCEPT ![t] = IF t \in processes THEN "join" ELSE "done"]
    /\ UNCHANGED <<semaphore, processes, cancelRequested, shutdownFlag, procState,
                   dying, escalator, callPc, subRet, waited, acquired, released>>
    /\ NoDisp

\* The monitor with a seeded fault: it cleans up without joining the process.
MonitorFinish_NoJoin(t) ==
    /\ monitor[t] = "join"
    /\ processes' = processes \ {t}
    /\ semaphore' = semaphore + 1
    /\ released' = [released EXCEPT ![t] = @ + 1]
    /\ monitor' = [monitor EXCEPT ![t] = "done"]
    /\ UNCHANGED <<cancelRequested, shutdownFlag, procState, dying, escalator,
                   callPc, subRet, waited, acquired>>
    /\ NoDisp

\* The monitor with a seeded fault: the handle is popped, the slot is kept.
MonitorFinish_NoRelease(t) ==
    /\ monitor[t] = "join"
    /\ ~IsAlive(t)
    /\ processes' = processes \ {t}
    /\ monitor' = [monitor EXCEPT ![t] = "done"]
    /\ UNCHANGED <<semaphore, released, cancelRequested, shutdownFlag, procState,
                   dying, escalator, callPc, subRet, waited, acquired>>
    /\ NoDisp

\* _monitor_process, lines 141-145 with _cleanup: join returns once the
\* process has exited, then the handle is popped and the slot released.
MonitorFinish(t) ==
    /\ monitor[t] = "join"
    /\ ~IsAlive(t)
    /\ processes' = processes \ {t}
    /\ semaphore' = semaphore + 1
    /\ released' = [released EXCEPT ![t] = @ + 1]
    /\ monitor' = [monitor EXCEPT ![t] = "done"]
    /\ UNCHANGED <<cancelRequested, shutdownFlag, procState, dying, escalator,
                   callPc, subRet, waited, acquired>>
    /\ NoDisp

\* ProcessManager.cancel with a seeded fault: a process whose cancellation
\* was already requested is terminated gracefully again whatever force is.
PMCancelStatus_NoEscalation(t, force) ==
    IF t \notin processes THEN "NOT_FOUND"
    ELSE IF ~IsAlive(t) THEN "FINISHED"
    ELSE IF force /\ t \notin cancelRequested THEN "KILLED"
    ELSE "TERMINATING"

\* ProcessManager.cancel, lines 169-196: the status it returns.
PMCancelStatus(t, force) ==
    IF t \notin processes THEN "NOT_FOUND"
    ELSE IF ~IsAlive(t) THEN "FINISHED"
    ELSE IF force THEN "KILLED"
    ELSE "TERMINATING"

PMCancelAccepted(t, force) == PMCancelStatus(t, force) \in {"KILLED", "TERMINATING"}

\* ProcessManager.cancel with _force_kill / _graceful_terminate: the signal
\* sent and the escalator started.  SIGKILL is fatal; SIGTERM is fatal unless
\* the worker has a handler for it (ignoresTerm), and starts an escalator.
PMCancelEffect(t, force, ignoresTerm) ==
    IF PMCancelAccepted(t, force)
    THEN /\ cancelRequested' = cancelRequested \cup {t}
         /\ dying' = IF force \/ ~ignoresTerm THEN dying \cup {t} ELSE dying
         /\ escalator' = IF force THEN escalator ELSE escalator \cup {t}
    ELSE UNCHANGED <<cancelRequested, dying, escalator>>

\* A direct call of ProcessManager.cancel(task_id, force).
PMCancel(t, force) ==
    /\ \E ignoresTerm \in BOOLEAN : PMCancelEffect(t, force, ignoresTerm)
    /\ UNCHANGED <<semaphore, processes, shutdownFlag, procState, monitor,
                   callPc, subRet, waited, acquired, released>>
    /\ NoDisp

\* _graceful_terminate._escalate, lines 213-220: after the grace period the
\* process is force-killed when it is still alive.
Escalate(t) ==
    /\ t \in escalator
    /\ escalator' = escalator \ {t}
    /\ dying' = IF IsAlive(t) THEN dying \cup {t} ELSE dying
    /\ UNCHANGED <<semaphore, processes, cancelRequested, shutdownFlag, procState,
                   monitor, callPc, subRet, waited, acquired, released>>
    /\ NoDisp

\* The OS ends a process that has a fatal signal pending.
ProcDie(t) ==
    /\ IsAlive(t)
    /\ t \in dying
    /\ procState' = [procState EXCEPT ![t] = "exited"]
    /\ dying' = dying \ {t}
    /\ UNCHANGED <<semaphore, processes, cancelRequested, shutdownFlag, monitor,
                   escalator, callPc, subRet, waited, acquired, released>>
    /\ NoDisp

\* ProcessManager.shutdown(wait, cancel_pending), lines 295-309.
Shutdown(cancel_pending) ==
    /\ ~shutdownFlag
    /\ shutdownFlag' = TRUE
    /\ IF cancel_pending
       THEN /\ dying' = dying \cup get_running_tasks
            /\ cancelRequested' = cancelRequested \cup get_running_tasks
       ELSE UNCHANGED <<dying, cancelRequested>>
    /\ UNCHANGED <<semaphore, processes, procState, monitor, escalator, callPc,
                   subRet, waited, acquired, released>>
    /\ NoDisp


\* ======================================================================
\*  Task Store, status map and the state the dispatcher starts from
\* ======================================================================

NoRow == [status |-> "", percentage |-> 0, message |-> "", error_message |-> ""]
NoEntry == [status |-> "", percentage |-> 0, message |-> ""]
Event(pct, msg) == [percentage |-> pct, message |-> msg]
NoEvent == Event(0, "")
NoFinish == [op |-> "", task_id |-> 0, status |-> "", message |-> "",
             error_message |-> ""]
IdleKiller == [pc |-> "idle", task |-> 0, force |-> FALSE, gone |-> FALSE,
               ret |-> [accepted |-> FALSE, status |-> ""]]
IdleStream == [pc |-> "idle", task |-> 0, data |-> NoEvent, first |-> FALSE,
               seen |-> NoEntry, attaches |-> 0]
IdleCancel == [pc |-> "idle", task |-> 0, force |-> FALSE, cur |-> NoEntry,
               msg |-> "", wrote |-> FALSE, entry |-> "",
               ret |-> [accepted |-> FALSE, message |-> "", status |-> ""]]

\* TaskDispatcher.__init__, ProgressManager.__init__ and an empty tasks table.
DispInit ==
    /\ hasGpu \in BOOLEAN
    /\ statusMap = [t \in Tasks |-> NoEntry]
    /\ dbQueue = <<>>
    /\ store = [t \in Tasks |-> NoRow]
    /\ sink = <<>>
    /\ tasksMap = {}
    /\ future = [t \in Tasks |-> "none"]
    /\ runner = [t \in Tasks |-> "none"]
    /\ ctxBound = {}
    /\ reports = [t \in Tasks |-> 0]
    /\ cancel = [c \in Cancels |-> IdleCancel]
    /\ watcher = [c \in Cancels |-> "none"]
    /\ killMarked = {}
    /\ coopReq = {}
    /\ late = {}
    /\ queueKeys = {}
    /\ queues = [t \in Tasks |-> <<>>]
    /\ runnerQueue = {}
    /\ stream = IdleStream
    /\ sent = [t \in Tasks |-> <<>>]
    /\ got = [t \in Tasks |-> <<>>]
    /\ table = {}
    /\ calls = [t \in Tasks |-> <<>>]
    /\ registry = <<>>
    /\ regLog = <<>>
    /\ dbThread = 0
    /\ threads = [w \in Starters |-> "none"]
    /\ starter = [c \in Starters |-> [pc |-> "idle", thread |-> 0]]
    /\ writer = [pc |-> "get", event |-> NoFinish, attempts |-> 0]
    /\ dbStats = [success |-> 0, fail |-> 0]
    /\ puts = 0
    /\ tried = 0
    /\ handled = <<>>
    /\ killer = [k \in Killers |-> IdleKiller]
    /\ escKill = {}
    /\ signalled = {}
    /\ single = [K \in Singletons |->
                    [instance |-> 0, initialized |-> {}, made |-> 0,
                     inits |-> 0]]
    /\ user = [K \in Singletons |-> [u \in Users |-> [pc |-> "idle",
                                                       obj |-> 0]]]

Init == PMInit /\ DispInit

\* ======================================================================
\*  Task Store operations (task_store.py) on the tasks table s
\* ======================================================================

HasRow(s, t) == s[t].status # ""

\* upsert_task_start: insert, or on conflict overwrite, with RUNNING / 0 /
\* "Initializing" and an empty error_message.
upsert_task_start(s, t) ==
    [s EXCEPT ![t] = [status |-> "RUNNING", percentage |-> 0,
                      message |-> "Initializing", error_message |-> ""]]

\* update_progress: UPDATE percentage, message, status; when no row matched,
\* upsert_task_start is called (line 125) and the update is not applied again.
update_progress(s, t, pct, msg, status) ==
    IF HasRow(s, t)
    THEN [s EXCEPT ![t] = [@ EXCEPT !.percentage = pct, !.message = msg,
                                    !.status = status]]
    ELSE upsert_task_start(s, t)

\* finish_task: UPDATE with percentage 100; when no row matched, create the
\* row with upsert_task_start and finish it (lines 140-143).
finish_task(s, t, status, msg, err) ==
    LET s1 == IF HasRow(s, t) THEN s ELSE upsert_task_start(s, t)
    IN  [s1 EXCEPT ![t] = [status |-> status, percentage |-> 100,
                           message |-> msg, error_message |-> err]]

\* ======================================================================
\*  Progress Manager: the status map (progress_manager.py)
\* ======================================================================

\* get_task: the entry, or {} when absent.
get_task(t) == statusMap[t]

\* _update_status / _update_status_proxy writing status, percentage and
\* message: the entry read is merged with updates that overwrite all three.
WriteStatus(m, t, status, pct, msg) ==
    [m EXCEPT ![t] = [status |-> status, percentage |-> pct, message |-> msg]]

\* register_task, lines 73-88
register_task(m, t) == WriteStatus(m, t, "QUEUED", 0, "Queued")

\* mark_finished with a seeded fault: the percentage is left as it was.
mark_finished_KeepsPercentage(m, t, status, msg) ==
    [m EXCEPT ![t] = [@ EXCEPT !.status = status, !.message = msg]]

\* mark_finished, lines 110-122
mark_finished(m, t, status, msg) == WriteStatus(m, t, status, 100, msg)

\* request_cancel, lines 124-135: the entry read earlier (cur) is merged with
\* message and status and written back; percentage is the one that was read.
request_cancel_write(m, t, cur, msg) ==
    [m EXCEPT ![t] = [status |-> "CANCEL_REQUESTED",
                      percentage |-> cur.percentage, message |-> msg]]

\* The cancel check of ProgressQueueReporter.update (lines 49-52) and of
\* _check_cancel (lines 84-89, 368-373).
CancelSeen(t) == statusMap[t].status \in {"CANCEL_REQUESTED", "CANCELLED"}

\* ======================================================================
\*  Hardware Manager and Algorithm Registry
\* ======================================================================

\* Registered scheme codes and their meta_info["resource_type"]; "NOPE" is
\* a code no plugin registers.
Schemes == {"SCM-WF02", "SCM-WF01", "NOPE"}
Registered(code) == code \in {"SCM-WF02", "SCM-WF01"}
resource_type(code) == IF code = "SCM-WF01" THEN "GPU" ELSE "CPU"

\* get_executor with a seeded fault: the hardware is not looked at.
get_executor_IgnoresHardware(resource_pref) ==
    IF resource_pref = "GPU" THEN "gpu_pool" ELSE "cpu_pool"

\* HardwareManager.get_executor with _init_pools: the thread pool only for
\* a GPU preference on a GPU host; the CPU pool otherwise.
get_executor(resource_pref) ==
    IF resource_pref = "GPU" /\ hasGpu THEN "gpu_pool" ELSE "cpu_pool"

GpuWorkers == 2

\* ======================================================================
\*  Task Dispatcher: dispatch (dispatcher.py:287-354)
\* ======================================================================

Result(t, status) == [task_id |-> t, status |-> status]
FinishEvent(t, status, msg, err) ==
    [op |-> "finish", task_id |-> t, status |-> status, message |-> msg,
     error_message |-> err]

\* dispatch of an unregistered scheme with a seeded fault: _report_error
\* does not call the sink.
DispatchUnknown_NoSink(t, code) ==
    /\ callPc[t] = "idle"
    /\ ~Registered(code)
    /\ store' = finish_task(upsert_task_start(store, t), t, "FAILED", "Failed",
                            "Scheme not found")
    /\ callPc' = [callPc EXCEPT ![t] = "returned"]
    /\ UNCHANGED <<semaphore, processes, cancelRequested, shutdownFlag, procState,
                   dying, monitor, escalator, subRet, pmHist>>
    /\ UNCHANGED <<hasGpu, statusMap, dbQueue, sink, tasksMap, future, runVars,
                   cancelVars, dispHist, watchVars,
                   watchHist, libVars>>

\* dispatch of an unregistered scheme, lines 290-293 with _report_error
\* (lines 484-491): the row is created and finished FAILED, the sink called.
DispatchUnknown(t, code) ==
    /\ callPc[t] = "idle"
    /\ ~Registered(code)
    /\ store' = finish_task(upsert_task_start(store, t), t, "FAILED", "Failed",
                            "Scheme not found")
    /\ sink' = Append(sink, Result(t, "FAILED"))
    /\ callPc' = [callPc EXCEPT ![t] = "returned"]
    /\ UNCHANGED <<semaphore, processes, cancelRequested, shutdownFlag, procState,
                   dying, monitor, escalator, subRet, pmHist>>
    /\ UNCHANGED <<hasGpu, statusMap, dbQueue, tasksMap, future, runVars,
                   cancelVars, dispHist, watchVars,
                   watchHist, libVars>>

\* ProgressManager.ensure_queue (progress_manager.py:179-186): the queue
\* registered under the task id is returned, a new one registered when there
\* is none; the runner is handed that queue.
ensure_queue(t) ==
    /\ queueKeys' = queueKeys \cup {t}
    /\ runnerQueue' = runnerQueue \cup {t}

\* queue.put with a seeded fault: the event goes to the front of the queue.
Put_Front(q, t, pct, msg) ==
    IF t \in runnerQueue THEN [q EXCEPT ![t] = <<Event(pct, msg)>> \o @]
    ELSE q

\* queue.put on the runner's progress_queue: the event reaches _queues[t]
\* while that is still the queue the runner was handed.
Put(q, t, pct, msg) ==
    IF t \in runnerQueue THEN [q EXCEPT ![t] = Append(@, Event(pct, msg))]
    ELSE q

\* The put is recorded in the history of the queue _queues holds.
Sent(h, t, pct, msg) ==
    IF t \in runnerQueue THEN [h EXCEPT ![t] = Append(@, Event(pct, msg))]
    ELSE h

\* dispatch to the CPU executor, lines 295-323: register_task, ensure_queue,
\* the store's upsert_task_start, then ProcessManager.submit is entered.
DispatchCpu(t, code) ==
    /\ callPc[t] = "idle"
    /\ Registered(code)
    /\ get_executor(resource_type(code)) = "cpu_pool"
    /\ statusMap' = register_task(statusMap, t)
    /\ store' = upsert_task_start(store, t)
    /\ ensure_queue(t)
    /\ callPc' = [callPc EXCEPT ![t] = "enter"]
    /\ UNCHANGED <<semaphore, processes, cancelRequested, shutdownFlag, procState,
                   dying, monitor, escalator, subRet, pmHist>>
    /\ UNCHANGED <<hasGpu, dbQueue, sink, tasksMap, future, runVars, cancelVars,
                   dispHist, queues, stream, watchHist, libVars>>

\* dispatch to the thread pool, lines 295-337 and 342-354: executor.submit
\* queues the job, or raises and the task is mirrored FAILED (a final event
\* is put on its queue first).
DispatchThread(t, code) ==
    /\ callPc[t] = "idle"
    /\ Registered(code)
    /\ get_executor(resource_type(code)) = "gpu_pool"
    /\ \E raises \in BOOLEAN :
        IF raises
        THEN /\ store' = finish_task(upsert_task_start(store, t), t, "FAILED",
                                     "Failed", "submit error")
             /\ statusMap' = mark_finished(register_task(statusMap, t), t,
                                           "FAILED", "Failed")
             /\ sink' = Append(sink, Result(t, "FAILED"))
             /\ queues' = [queues EXCEPT ![t] = Append(@, Event(100, "Failed"))]
             /\ sent' = [sent EXCEPT ![t] = Append(@, Event(100, "Failed"))]
             /\ callPc' = [callPc EXCEPT ![t] = "returned"]
             /\ UNCHANGED future
        ELSE /\ store' = upsert_task_start(store, t)
             /\ statusMap' = register_task(statusMap, t)
             /\ future' = [future EXCEPT ![t] = "pending"]
             /\ callPc' = [callPc EXCEPT ![t] = "future"]
             /\ UNCHANGED <<sink, queues, sent>>
    /\ ensure_queue(t)
    /\ UNCHANGED <<semaphore, processes, cancelRequested, shutdownFlag, procState,
                   dying, monitor, escalator, subRet, pmHist>>
    /\ UNCHANGED <<hasGpu, dbQueue, tasksMap, runVars, cancelVars, dispHist,
                   stream, got, libVars>>

\* dispatch, lines 338-341: the future is stored under task_id and the
\* cleanup callback attached; on a future already done the callback runs at
\* once (_cleanup_task pops the entry).
DispatchStoreFuture(t) ==
    /\ callPc[t] = "future"
    /\ tasksMap' = IF future[t] \in {"done", "cancelled"}
                   THEN tasksMap \ {t} ELSE tasksMap \cup {t}
    /\ callPc' = [callPc EXCEPT ![t] = "returned"]
    /\ UNCHANGED <<semaphore, processes, cancelRequested, shutdownFlag, procState,
                   dying, monitor, escalator, subRet, pmHist>>
    /\ UNCHANGED <<hasGpu, statusMap, dbQueue, store, sink, future, runVars,
                   cancelVars, dispHist, watchVars,
                   watchHist, libVars>>

\* A pool thread picks the queued job up and enters _safe_runner.
ThreadStart(t) ==
    /\ future[t] = "pending"
    /\ Cardinality({u \in Tasks : future[u] = "running"}) < GpuWorkers
    /\ future' = [future EXCEPT ![t] = "running"]
    /\ runner' = [runner EXCEPT ![t] = "check1"]
    /\ UNCHANGED <<pmVars, pmHist, hasGpu, statusMap, dbQueue, store, sink,
                   tasksMap, ctxBound, reports, cancelVars, dispHist, watchVars,
                   watchHist, libVars>>

\* _safe_runner has returned or raised: the future is done and its
\* callback _cleanup_task (lines 493-495) pops the entry.
ThreadFinish(t) ==
    /\ future[t] = "running"
    /\ runner[t] \in {"done", "crashed"}
    /\ future' = [future EXCEPT ![t] = "done"]
    /\ tasksMap' = tasksMap \ {t}
    /\ UNCHANGED <<pmVars, pmHist, hasGpu, statusMap, dbQueue, store, sink,
                   runVars, cancelVars, dispHist, watchVars,
                   watchHist, libVars>>

\* ======================================================================
\*  The per-task runner: _run_task_in_subprocess (lines 72-206) and
\*  _safe_runner (lines 356-482)
\* ======================================================================

\* The runner's host executes: a live subprocess with no fatal signal
\* pending, or a pool thread running the job.
CanStep(t) == (IsAlive(t) /\ t \notin dying) \/ future[t] = "running"

Executing(t) == CanStep(t) /\ runner[t] \notin {"none", "done", "crashed"}

RunnerFrame == UNCHANGED <<pmVars, pmHist, hasGpu, store, tasksMap, future,
                           cancelVars, killMarked, coopReq, queueKeys,
                           runnerQueue, stream, got, libVars>>

\* _run_task_in_subprocess, lines 91-96: plugins are reloaded and the scheme
\* looked up; when it is missing the worker returns without any report.
RunnerLookup(t) ==
    /\ runner[t] = "start"
    /\ CanStep(t)
    /\ \E found \in BOOLEAN :
        runner' = [runner EXCEPT ![t] = IF found THEN "check1" ELSE "done"]
    /\ UNCHANGED <<statusMap, dbQueue, sink, ctxBound, reports, late, queues, sent>>
    /\ RunnerFrame

\* _check_cancel at lines 103 and 108 (379 and 384).
RunnerCheckCancel(t) ==
    /\ runner[t] \in {"check1", "check2"}
    /\ CanStep(t)
    /\ runner' = [runner EXCEPT ![t] =
                    IF CancelSeen(t) THEN "c_map"
                    ELSE IF runner[t] = "check1" THEN "prepare" ELSE "exec"]
    /\ UNCHANGED <<statusMap, dbQueue, sink, ctxBound, reports, late, queues, sent>>
    /\ RunnerFrame

\* lines 104-106 (380-382): load_data_ref and the AlgorithmContext
\* constructor.  Either may raise; ctx is then unbound, so the handler's
\* first statement ctx.log (line 176) raises in turn and the runner ends
\* without any mirror.  (framework.py:18 takes no `data`, so with the shipped
\* AlgorithmContext the constructor raises; tests/test_unit_plugins.py:38
\* builds the context with `data`, the signature the runner is written for.)
RunnerPrepare(t) ==
    /\ runner[t] = "prepare"
    /\ CanStep(t)
    /\ \E ok \in BOOLEAN :
        /\ runner' = [runner EXCEPT ![t] = IF ok THEN "rp0" ELSE "crashed"]
        /\ ctxBound' = IF ok THEN ctxBound \cup {t} ELSE ctxBound
    /\ UNCHANGED <<statusMap, dbQueue, sink, reports, late, queues, sent>>
    /\ RunnerFrame

\* ProgressQueueReporter.update, lines 49-52: the status map is read and the
\* cancel signal raised when a cancel is seen.  Called by the runner with 0
\* (line 107), by algo.execute, and with 100 (line 110).
RunnerReportCheck(t) ==
    /\ \/ runner[t] \in {"rp0", "rp100"}
       \/ runner[t] = "exec" /\ reports[t] < MaxReports
    /\ CanStep(t)
    /\ late' = IF t \in coopReq THEN late \cup {t} ELSE late
    /\ runner' = [runner EXCEPT ![t] =
                    IF CancelSeen(t) THEN "c_map"
                    ELSE IF runner[t] = "rp0" THEN "rp0w"
                    ELSE IF runner[t] = "rp100" THEN "rp100w" ELSE "upw"]
    /\ UNCHANGED <<statusMap, dbQueue, sink, ctxBound, reports, queues, sent>>
    /\ RunnerFrame

\* ProgressQueueReporter.update, lines 54-69: the event is queued and
\* RUNNING / percentage / message written into the status map.
RunnerReportWrite(t) ==
    /\ runner[t] \in {"rp0w", "upw", "rp100w"}
    /\ CanStep(t)
    /\ statusMap' =
         IF runner[t] = "rp0w"
         THEN WriteStatus(statusMap, t, "RUNNING", 0, "Initializing...")
         ELSE IF runner[t] = "upw"
         THEN WriteStatus(statusMap, t, "RUNNING", 50, "Working...")
         ELSE WriteStatus(statusMap, t, "RUNNING", 100, "Completed")
    /\ runner' = [runner EXCEPT ![t] =
                    IF runner[t] = "rp0w" THEN "check2"
                    ELSE IF runner[t] = "upw" THEN "exec" ELSE "s_map"]
    /\ queues' =
         IF runner[t] = "rp0w" THEN Put(queues, t, 0, "Initializing...")
         ELSE IF runner[t] = "upw" THEN Put(queues, t, 50, "Working...")
         ELSE Put(queues, t, 100, "Completed")
    /\ sent' =
         IF runner[t] = "rp0w" THEN Sent(sent, t, 0, "Initializing...")
         ELSE IF runner[t] = "upw" THEN Sent(sent, t, 50, "Working...")
         ELSE Sent(sent, t, 100, "Completed")
    /\ reports' = [reports EXCEPT ![t] = IF runner[t] = "upw" THEN @ + 1 ELSE @]
    /\ UNCHANGED <<dbQueue, sink, ctxBound, late>>
    /\ RunnerFrame

\* algo.execute returns (line 109).
RunnerExecReturn(t) ==
    /\ runner[t] = "exec"
    /\ CanStep(t)
    /\ runner' = [runner EXCEPT ![t] = "rp100"]
    /\ UNCHANGED <<statusMap, dbQueue, sink, ctxBound, reports, late, queues, sent>>
    /\ RunnerFrame

\* algo.execute raises (line 173).
RunnerExecRaise(t) ==
    /\ runner[t] = "exec"
    /\ CanStep(t)
    /\ runner' = [runner EXCEPT ![t] = "f_map"]
    /\ UNCHANGED <<statusMap, dbQueue, sink, ctxBound, reports, late, queues, sent>>
    /\ RunnerFrame

RunnerStatus(pc) ==
    IF pc \in {"s_map", "s_db", "s_sink"} THEN "SUCCESS"
    ELSE IF pc \in {"c_map", "c_db", "c_sink"} THEN "CANCELLED"
    ELSE "FAILED"

RunnerMessage(pc) ==
    IF pc \in {"s_map", "s_db", "s_sink"} THEN "Completed"
    ELSE IF pc \in {"c_map", "c_db", "c_sink"} THEN "Cancellation requested"
    ELSE "Failed"

\* The terminal write to the status map: lines 111-120, 143-152, 177-186.
RunnerMap(t) ==
    /\ runner[t] \in {"s_map", "c_map", "f_map"}
    /\ CanStep(t)
    /\ statusMap' = WriteStatus(statusMap, t, RunnerStatus(runner[t]), 100,
                                RunnerMessage(runner[t]))
    /\ runner' = [runner EXCEPT ![t] =
                    IF runner[t] = "s_map" THEN "s_db"
                    ELSE IF runner[t] = "c_map" THEN "c_db" ELSE "f_db"]
    /\ UNCHANGED <<dbQueue, sink, ctxBound, reports, late, queues, sent>>
    /\ RunnerFrame

\* The runner with a seeded fault: no finish event is put on the DB queue.
RunnerDb_NoFinishEvent(t) ==
    /\ runner[t] \in {"s_db", "c_db", "f_db"}
    /\ CanStep(t)
    /\ runner' = [runner EXCEPT ![t] =
                    IF t \notin ctxBound THEN "crashed"
                    ELSE IF runner[t] = "s_db" THEN "s_sink"
                    ELSE IF runner[t] = "c_db" THEN "c_sink" ELSE "f_sink"]
    /\ queues' = Put(queues, t, 100, RunnerMessage(runner[t]))
    /\ sent' = Sent(sent, t, 100, RunnerMessage(runner[t]))
    /\ UNCHANGED <<statusMap, dbQueue, sink, ctxBound, reports, late>>
    /\ RunnerFrame

\* The final event put on the progress queue (lines 121-128, 153-160,
\* 187-194) and the finish event put on the DB queue (lines 129-138, 161-170,
\* 195-204); then ctx.log (lines 139, 171, 205), which raises when ctx is
\* unbound.
RunnerDb(t) ==
    /\ runner[t] \in {"s_db", "c_db", "f_db"}
    /\ CanStep(t)
    /\ dbQueue' = Append(dbQueue,
                         FinishEvent(t, RunnerStatus(runner[t]),
                                     RunnerMessage(runner[t]),
                                     IF runner[t] = "f_db" THEN "boom" ELSE ""))
    /\ runner' = [runner EXCEPT ![t] =
                    IF t \notin ctxBound THEN "crashed"
                    ELSE IF runner[t] = "s_db" THEN "s_sink"
                    ELSE IF runner[t] = "c_db" THEN "c_sink" ELSE "f_sink"]
    /\ queues' = Put(queues, t, 100, RunnerMessage(runner[t]))
    /\ sent' = Sent(sent, t, 100, RunnerMessage(runner[t]))
    /\ UNCHANGED <<statusMap, sink, ctxBound, reports, late>>
    /\ RunnerFrame

\* reporter.send_result: lines 140, 172, 206.
RunnerSink(t) ==
    /\ runner[t] \in {"s_sink", "c_sink", "f_sink"}
    /\ CanStep(t)
    /\ sink' = Append(sink, Result(t, RunnerStatus(runner[t])))
    /\ runner' = [runner EXCEPT ![t] = "done"]
    /\ UNCHANGED <<statusMap, dbQueue, ctxBound, reports, late, queues, sent>>
    /\ RunnerFrame

\* _run_task_in_subprocess has returned or raised: the subprocess exits.
RunnerExit(t) ==
    /\ IsAlive(t)
    /\ t \notin dying
    /\ runner[t] \in {"done", "crashed"}
    /\ procState' = [procState EXCEPT ![t] = "exited"]
    /\ UNCHANGED <<semaphore, processes, cancelRequested, shutdownFlag, dying,
                   monitor, escalator, callPc, subRet, pmHist>>
    /\ NoDisp

\* ======================================================================
\*  The DB writer thread (progress_manager.py:229-272)
\* ======================================================================

\* One event is taken from the DB queue and applied with finish_task.
DbWrite ==
    /\ dbQueue # <<>>
    /\ LET e == Head(dbQueue)
       IN  store' = finish_task(store, e.task_id, e.status, e.message,
                                e.error_message)
    /\ dbQueue' = Tail(dbQueue)
    /\ UNCHANGED <<pmVars, pmHist, hasGpu, statusMap, sink, tasksMap, future,
                   runVars, cancelVars, dispHist, watchVars,
                   watchHist, libVars>>

\* submit starts the process (line 113): the worker begins to run its
\* target; or Process.start raises (lines 127-130).
SubmitStart(t) ==
    /\ SubmitStartPM(t)
    /\ runner' = [runner EXCEPT ![t] = "start"]
    /\ UNCHANGED <<dispVars, ctxBound, reports, cancelVars, dispHist, watchVars,
                   watchHist, libVars>>

SubmitStartFail(t) == SubmitStartFailPM(t) /\ NoDisp

\* ======================================================================
\*  Task Dispatcher: cancel_task (dispatcher.py:219-268), _mark_cancelled
\*  (lines 497-501) and _watch_termination (lines 270-285)
\* ======================================================================

\* Whether the task has reached a terminal status anywhere it is recorded.
TaskTerminal(t) ==
    \/ statusMap[t].status \in Terminal
    \/ store[t].status \in Terminal

Ret(accepted, message, status) ==
    [accepted |-> accepted, message |-> message, status |-> status]

CancelFrame == UNCHANGED <<semaphore, processes, shutdownFlag, procState,
                           monitor, callPc, subRet, pmHist, hasGpu, dbQueue,
                           runVars, late, watchVars, watchHist, libVars>>

\* A client calls cancel_task(task_id, force).
CancelCall(c, t, force) ==
    /\ cancel[c].pc = "idle"
    /\ IF c = 1 THEN TRUE ELSE cancel[c - 1].pc # "idle"
    /\ cancel' = [cancel EXCEPT ![c] =
                    [@ EXCEPT !.pc = "read", !.task = t, !.force = force,
                              !.entry = IF callPc[t] = "idle" THEN "never"
                                        ELSE IF TaskTerminal(t) THEN "terminal"
                                        ELSE "live"]]
    /\ UNCHANGED <<cancelRequested, dying, escalator, statusMap, store, sink,
                   tasksMap, future, watcher, killMarked, coopReq>>
    /\ CancelFrame

\* lines 231-235: the status map is read; a terminal status ends the call.
CancelRead(c) ==
    /\ cancel[c].pc = "read"
    /\ LET status == get_task(cancel[c].task).status
       IN cancel' = [cancel EXCEPT ![c] =
            IF status \in Terminal
            THEN [@ EXCEPT !.pc = "returned",
                           !.ret = Ret(FALSE, "Task already finished", status)]
            ELSE [@ EXCEPT !.pc = "future"]]
    /\ UNCHANGED <<cancelRequested, dying, escalator, statusMap, store, sink,
                   tasksMap, future, watcher, killMarked, coopReq>>
    /\ CancelFrame

\* lines 238-244: a registered future that has not started is cancelled (its
\* done-callback pops the entry) and the task goes on to _mark_cancelled.
CancelFuture(c) ==
    /\ cancel[c].pc = "future"
    /\ LET t == cancel[c].task IN
        IF t \in tasksMap /\ future[t] = "pending"
        THEN /\ future' = [future EXCEPT ![t] = "cancelled"]
             /\ tasksMap' = tasksMap \ {t}
             /\ cancel' = [cancel EXCEPT ![c] =
                    [@ EXCEPT !.pc = "mark_map", !.msg = "Cancelled before start",
                              !.wrote = TRUE]]
        ELSE /\ cancel' = [cancel EXCEPT ![c] = [@ EXCEPT !.pc = "isrun"]]
             /\ UNCHANGED <<future, tasksMap>>
    /\ UNCHANGED <<cancelRequested, dying, escalator, statusMap, store, sink,
                   watcher, killMarked, coopReq>>
    /\ CancelFrame

\* lines 247-248 and 265: proc_mgr.is_running decides between the process
\* branch and the cooperative fallback.
CancelIsRunning(c) ==
    /\ cancel[c].pc = "isrun"
    /\ cancel' = [cancel EXCEPT ![c] =
                    IF is_running(cancel[c].task)
                    THEN [@ EXCEPT !.pc = "pmcancel"]
                    ELSE [@ EXCEPT !.pc = "req_read", !.msg = "Cancel requested"]]
    /\ UNCHANGED <<cancelRequested, dying, escalator, statusMap, store, sink,
                   tasksMap, future, watcher, killMarked, coopReq>>
    /\ CancelFrame

\* lines 249-263: proc_mgr.cancel(task_id, force) and the branch on its
\* result: KILLED, TERMINATING, or the rejection passed through.
CancelPM(c) ==
    /\ cancel[c].pc = "pmcancel"
    /\ LET t == cancel[c].task
           st == PMCancelStatus(t, cancel[c].force)
       IN /\ \E ignoresTerm \in BOOLEAN :
                PMCancelEffect(t, cancel[c].force, ignoresTerm)
          /\ cancel' = [cancel EXCEPT ![c] =
                IF st = "KILLED"
                THEN [@ EXCEPT !.pc = "mark_map", !.msg = "Force killed",
                               !.wrote = TRUE]
                ELSE IF st = "TERMINATING"
                THEN [@ EXCEPT !.pc = "req_read", !.msg = "Terminating",
                               !.wrote = TRUE]
                ELSE [@ EXCEPT !.pc = "returned",
                               !.ret = Ret(FALSE,
                                           IF st = "NOT_FOUND"
                                           THEN "Task not found or already finished"
                                           ELSE "Task already finished", st)]]
    /\ UNCHANGED <<statusMap, store, sink, tasksMap, future, watcher, killMarked,
                   coopReq>>
    /\ CancelFrame

\* request_cancel, line 56 of _update_status: the entry is read.
CancelReqRead(c) ==
    /\ cancel[c].pc = "req_read"
    /\ cancel' = [cancel EXCEPT ![c] =
                    [@ EXCEPT !.pc = "req_write", !.cur = get_task(cancel[c].task)]]
    /\ UNCHANGED <<cancelRequested, dying, escalator, statusMap, store, sink,
                   tasksMap, future, watcher, killMarked, coopReq>>
    /\ CancelFrame

\* request_cancel, lines 57-58: the merged entry is written back.
CancelReqWrite(c) ==
    /\ cancel[c].pc = "req_write"
    /\ LET t == cancel[c].task IN
        /\ statusMap' = request_cancel_write(statusMap, t, cancel[c].cur,
                                             cancel[c].msg)
        /\ coopReq' = IF cancel[c].msg = "Cancel requested" /\ Executing(t)
                      THEN coopReq \cup {t} ELSE coopReq
    /\ cancel' = [cancel EXCEPT ![c] = [@ EXCEPT !.pc = "req_store", !.wrote = TRUE]]
    /\ UNCHANGED <<cancelRequested, dying, escalator, store, sink, tasksMap,
                   future, watcher, killMarked>>
    /\ CancelFrame

\* lines 258-261 and 267-268: the store's update_progress with percentage 0
\* and CANCEL_REQUESTED; the TERMINATING branch starts the watcher thread.
\* The call returns, and the entry it had read (a local) is gone.
CancelReqStore(c) ==
    /\ cancel[c].pc = "req_store"
    /\ store' = update_progress(store, cancel[c].task, 0, cancel[c].msg,
                                "CANCEL_REQUESTED")
    /\ IF cancel[c].msg = "Terminating"
       THEN /\ watcher' = [watcher EXCEPT ![c] = "poll"]
            /\ cancel' = [cancel EXCEPT ![c] =
                [@ EXCEPT !.pc = "returned", !.cur = NoEntry,
                          !.ret = Ret(TRUE, "SIGTERM sent", "TERMINATING")]]
       ELSE /\ UNCHANGED watcher
            /\ cancel' = [cancel EXCEPT ![c] =
                [@ EXCEPT !.pc = "returned", !.cur = NoEntry,
                          !.ret = Ret(TRUE, "Cancel requested", "CANCEL_REQUESTED")]]
    /\ UNCHANGED <<cancelRequested, dying, escalator, statusMap, sink, tasksMap,
                   future, killMarked, coopReq>>
    /\ CancelFrame

\* _mark_cancelled, line 499: mark_finished(task_id, "CANCELLED", message).
CancelMarkMap(c) ==
    /\ cancel[c].pc = "mark_map"
    /\ statusMap' = mark_finished(statusMap, cancel[c].task, "CANCELLED",
                                  cancel[c].msg)
    /\ cancel' = [cancel EXCEPT ![c] = [@ EXCEPT !.pc = "mark_store"]]
    /\ UNCHANGED <<cancelRequested, dying, escalator, store, sink, tasksMap,
                   future, watcher, killMarked, coopReq>>
    /\ CancelFrame

\* _mark_cancelled, line 500: finish_task(task_id, "CANCELLED", message, "").
CancelMarkStore(c) ==
    /\ cancel[c].pc = "mark_store"
    /\ store' = finish_task(store, cancel[c].task, "CANCELLED", cancel[c].msg, "")
    /\ cancel' = [cancel EXCEPT ![c] = [@ EXCEPT !.pc = "mark_sink"]]
    /\ UNCHANGED <<cancelRequested, dying, escalator, statusMap, sink, tasksMap,
                   future, watcher, killMarked, coopReq>>
    /\ CancelFrame

\* _mark_cancelled, line 501, and the return at lines 244 / 254.
CancelMarkSink(c) ==
    /\ cancel[c].pc = "mark_sink"
    /\ sink' = Append(sink, Result(cancel[c].task, "CANCELLED"))
    /\ killMarked' = IF cancel[c].msg = "Force killed"
                     THEN killMarked \cup {cancel[c].task} ELSE killMarked
    /\ cancel' = [cancel EXCEPT ![c] =
                    [@ EXCEPT !.pc = "returned",
                              !.ret = Ret(TRUE,
                                          IF cancel[c].msg = "Force killed"
                                          THEN "Force killed" ELSE "Cancelled",
                                          "CANCELLED")]]
    /\ UNCHANGED <<cancelRequested, dying, escalator, statusMap, store, tasksMap,
                   future, watcher, coopReq>>
    /\ CancelFrame

\* _watcher, lines 276-279: a poll finds the process gone.
WatcherSeesExit(c) ==
    /\ watcher[c] = "poll"
    /\ ~is_running(cancel[c].task)
    /\ watcher' = [watcher EXCEPT ![c] = "mark_map"]
    /\ cancel' = [cancel EXCEPT ![c] = [@ EXCEPT !.msg = "Terminated"]]
    /\ UNCHANGED <<cancelRequested, dying, escalator, statusMap, store, sink,
                   tasksMap, future, killMarked, coopReq>>
    /\ CancelFrame

\* _watcher, lines 281-283: twenty polls found the process running; it is
\* force-killed through proc_mgr.cancel(task_id, force=True).
WatcherTimeout(c) ==
    /\ watcher[c] = "poll"
    /\ is_running(cancel[c].task)
    /\ PMCancelEffect(cancel[c].task, TRUE, FALSE)
    /\ watcher' = [watcher EXCEPT ![c] = "mark_map"]
    /\ cancel' = [cancel EXCEPT ![c] = [@ EXCEPT !.msg = "Force killed"]]
    /\ UNCHANGED <<statusMap, store, sink, tasksMap, future, killMarked, coopReq>>
    /\ CancelFrame

\* _watcher's _mark_cancelled: mark_finished, finish_task, send_result.
WatcherMark(c) ==
    /\ watcher[c] \in {"mark_map", "mark_store", "mark_sink"}
    /\ LET t == cancel[c].task IN
        /\ statusMap' = IF watcher[c] = "mark_map"
                        THEN mark_finished(statusMap, t, "CANCELLED", cancel[c].msg)
                        ELSE statusMap
        /\ store' = IF watcher[c] = "mark_store"
                    THEN finish_task(store, t, "CANCELLED", cancel[c].msg, "")
                    ELSE store
        /\ sink' = IF watcher[c] = "mark_sink"
                   THEN Append(sink, Result(t, "CANCELLED")) ELSE sink
    /\ watcher' = [watcher EXCEPT ![c] =
                     IF watcher[c] = "mark_map" THEN "mark_store"
                     ELSE IF watcher[c] = "mark_store" THEN "mark_sink" ELSE "done"]
    /\ UNCHANGED <<cancelRequested, dying, escalator, cancel, tasksMap, future,
                   killMarked, coopReq>>
    /\ CancelFrame

\* ======================================================================
\*  The service: dispatch and cancel_task called by clients, with the
\*  workers, monitor, escalator, watcher and DB-writer threads they start
\* ======================================================================

Next ==
    \/ \E t \in DispTasks, code \in Schemes : DispatchUnknown(t, code)
    \/ \E t \in DispTasks, code \in Schemes : DispatchCpu(t, code)
    \/ \E t \in DispTasks, code \in Schemes : DispatchThread(t, code)
    \/ \E t \in DispTasks : DispatchStoreFuture(t)
    \/ \E t \in DispTasks : SubmitEnter(t)
    \/ \E t \in DispTasks : SubmitStart(t)
    \/ \E t \in DispTasks : SubmitStartFail(t)
    \/ \E t \in DispTasks : MonitorLookup(t)
    \/ \E t \in DispTasks : MonitorFinish(t)
    \/ \E t \in DispTasks : Escalate(t)
    \/ \E t \in DispTasks : ProcDie(t)
    \/ \E t \in DispTasks : ThreadStart(t)
    \/ \E t \in DispTasks : ThreadFinish(t)
    \/ \E t \in DispTasks : RunnerLookup(t)
    \/ \E t \in DispTasks : RunnerCheckCancel(t)
    \/ \E t \in DispTasks : RunnerPrepare(t)
    \/ \E t \in DispTasks : RunnerReportCheck(t)
    \/ \E t \in DispTasks : RunnerReportWrite(t)
    \/ \E t \in DispTasks : RunnerExecReturn(t)
    \/ \E t \in DispTasks : RunnerExecRaise(t)
    \/ \E t \in DispTasks : RunnerMap(t)
    \/ \E t \in DispTasks : RunnerDb(t)
    \/ \E t \in DispTasks : RunnerSink(t)
    \/ \E t \in DispTasks : RunnerExit(t)
    \/ DbWrite
    \/ \E c \in SoloCalls, t \in DispTasks, force \in BOOLEAN : CancelCall(c, t, force)
    \/ \E c \in Cancels : CancelRead(c)
    \/ \E c \in Cancels : CancelFuture(c)
    \/ \E c \in Cancels : CancelIsRunning(c)
    \/ \E c \in Cancels : CancelPM(c)
    \/ \E c \in Cancels : CancelReqRead(c)
    \/ \E c \in Cancels : CancelReqWrite(c)
    \/ \E c \in Cancels : CancelReqStore(c)
    \/ \E c \in Cancels : CancelMarkMap(c)
    \/ \E c \in Cancels : CancelMarkStore(c)
    \/ \E c \in Cancels : CancelMarkSink(c)
    \/ \E c \in Cancels : WatcherSeesExit(c)
    \/ \E c \in Cancels : WatcherTimeout(c)
    \/ \E c \in Cancels : WatcherMark(c)

Spec == Init /\ [][Next]_vars

\* One step of the runner of task t, whichever it is.
RunnerStep(t) ==
    \/ RunnerLookup(t) \/ RunnerCheckCancel(t) \/ RunnerPrepare(t)
    \/ RunnerReportCheck(t) \/ RunnerReportWrite(t)
    \/ RunnerExecReturn(t) \/ RunnerExecRaise(t)
    \/ RunnerMap(t) \/ RunnerDb(t) \/ RunnerSink(t)

\* Scheduling: a worker that can run goes on running, and the DB writer
\* thread (a daemon thread looping on the queue) goes on taking events.
Fair ==
    /\ WF_vars(DbWrite)
    /\ \A t \in DispTasks : WF_vars(RunnerStep(t))

LiveSpec == Init /\ [][Next]_vars /\ Fair

\* The steps taken by the service on its own, once clients have made their
\* calls: every step of Next but the entry into dispatch and cancel_task.
ServiceStep ==
    \/ \E t \in DispTasks : DispatchStoreFuture(t)
    \/ \E t \in DispTasks : SubmitEnter(t)
    \/ \E t \in DispTasks : SubmitStart(t)
    \/ \E t \in DispTasks : SubmitStartFail(t)
    \/ \E t \in DispTasks : MonitorLookup(t)
    \/ \E t \in DispTasks : MonitorFinish(t)
    \/ \E t \in DispTasks : Escalate(t)
    \/ \E t \in DispTasks : ProcDie(t)
    \/ \E t \in DispTasks : ThreadStart(t)
    \/ \E t \in DispTasks : ThreadFinish(t)
    \/ \E t \in DispTasks : RunnerStep(t)
    \/ \E t \in DispTasks : RunnerExit(t)
    \/ DbWrite
    \/ \E c \in Cancels : CancelRead(c)
    \/ \E c \in Cancels : CancelFuture(c)
    \/ \E c \in Cancels : CancelIsRunning(c)
    \/ \E c \in Cancels : CancelPM(c)
    \/ \E c \in Cancels : CancelReqRead(c)
    \/ \E c \in Cancels : CancelReqWrite(c)
    \/ \E c \in Cancels : CancelReqStore(c)
    \/ \E c \in Cancels : CancelMarkMap(c)
    \/ \E c \in Cancels : CancelMarkStore(c)
    \/ \E c \in Cancels : CancelMarkSink(c)
    \/ \E c \in Cancels : WatcherSeesExit(c)
    \/ \E c \in Cancels : WatcherTimeout(c)
    \/ \E c \in Cancels : WatcherMark(c)

\* Scheduling: the service never stops while one of its threads or
\* processes has a step to take; the DB writer keeps running.
FairService == WF_vars(ServiceStep) /\ WF_vars(DbWrite)

LiveSpecService == Init /\ [][Next]_vars /\ FairService

\* ======================================================================
\*  Progress streams: ProgressManager.register_watcher / close_watcher
\*  (progress_manager.py:160-177, 201-205) and the WatchTaskProgress handler
\*  (grpc_server.py:61-76): a CPU task on a host without GPU, one client
\*  that watches it, attaching again after its stream has closed, and one
\*  that may cancel it with force
\* ======================================================================

StreamOpen == stream.pc \in {"get", "status"}

\* register_watcher: the queue already registered under the task id is
\* returned as it is; otherwise a new queue is registered and, when the
\* status map has an entry, one event carrying the entry's percentage and
\* message is put on it.  The runner keeps the queue it was handed.
register_watcher(t) ==
    IF t \in queueKeys
    THEN UNCHANGED <<queueKeys, queues, runnerQueue, sent, got>>
    ELSE /\ queueKeys' = queueKeys \cup {t}
         /\ queues' = [queues EXCEPT ![t] =
                          IF statusMap[t].status # ""
                          THEN <<Event(statusMap[t].percentage,
                                       statusMap[t].message)>>
                          ELSE <<>>]
         /\ sent' = [sent EXCEPT ![t] = queues'[t]]
         /\ got' = [got EXCEPT ![t] = <<>>]
         /\ runnerQueue' = runnerQueue \ {t}

\* close_watcher: the queue is dropped from _queues; what the runner puts on
\* it afterwards is read by nobody.
close_watcher(t) ==
    /\ queueKeys' = queueKeys \ {t}
    /\ queues' = [queues EXCEPT ![t] = <<>>]
    /\ sent' = [sent EXCEPT ![t] = <<>>]
    /\ got' = [got EXCEPT ![t] = <<>>]
    /\ runnerQueue' = runnerQueue \ {t}

WatchFrame == UNCHANGED <<pmVars, pmHist, dispVars, runVars, cancelVars,
                          dispHist, libVars>>

\* A client calls WatchTaskProgress(task_id): line 65.
WatchAttach(t) ==
    /\ stream.pc \in {"idle", "closed"}
    /\ stream.attaches < MaxAttach
    /\ register_watcher(t)
    /\ stream' = [pc |-> "get", task |-> t, data |-> NoEvent, first |-> TRUE,
                  seen |-> statusMap[t], attaches |-> stream.attaches + 1]
    /\ WatchFrame

\* q.get returns an event and the handler yields it: lines 68-69.
WatchGet ==
    /\ stream.pc = "get"
    /\ queues[stream.task] # <<>>
    /\ stream' = [stream EXCEPT !.pc = "status",
                                !.data = Head(queues[stream.task])]
    /\ queues' = [queues EXCEPT ![stream.task] = Tail(@)]
    /\ got' = [got EXCEPT ![stream.task] = Append(@, stream'.data)]
    /\ UNCHANGED <<queueKeys, runnerQueue, sent>>
    /\ WatchFrame

\* After the yield the status map is read; the loop ends when the event has
\* percentage >= 100 or the status is SUCCESS or FAILED (lines 70-72), and
\* the finally clause closes the watcher (lines 75-76).
WatchCheck ==
    /\ stream.pc = "status"
    /\ IF \/ stream.data.percentage >= 100
          \/ statusMap[stream.task].status \in {"SUCCESS", "FAILED"}
       THEN /\ close_watcher(stream.task)
            /\ stream' = [stream EXCEPT !.pc = "closed", !.first = FALSE]
       ELSE /\ stream' = [stream EXCEPT !.pc = "get", !.first = FALSE]
            /\ UNCHANGED <<queueKeys, queues, runnerQueue, sent, got>>
    /\ WatchFrame

\* q.get(timeout=60) raises Empty after 60 seconds without an event: lines
\* 68 and 73-76.
WatchTimeout ==
    /\ stream.pc = "get"
    /\ queues[stream.task] = <<>>
    /\ close_watcher(stream.task)
    /\ stream' = [stream EXCEPT !.pc = "closed", !.first = FALSE]
    /\ WatchFrame

InitWatch == Init /\ hasGpu = FALSE

\* Every step but the silence timeout of a stream.
Busy ==
    \/ \E t \in DispTasks, code \in Schemes : DispatchCpu(t, code)
    \/ \E t \in DispTasks : SubmitEnter(t)
    \/ \E t \in DispTasks : SubmitStart(t)
    \/ \E t \in DispTasks : MonitorLookup(t)
    \/ \E t \in DispTasks : MonitorFinish(t)
    \/ \E t \in DispTasks : ProcDie(t)
    \/ \E t \in DispTasks : RunnerLookup(t)
    \/ \E t \in DispTasks : RunnerCheckCancel(t)
    \/ \E t \in DispTasks : RunnerPrepare(t)
    \/ \E t \in DispTasks : RunnerReportCheck(t)
    \/ \E t \in DispTasks : RunnerReportWrite(t)
    \/ \E t \in DispTasks : RunnerExecReturn(t)
    \/ \E t \in DispTasks : RunnerExecRaise(t)
    \/ \E t \in DispTasks : RunnerMap(t)
    \/ \E t \in DispTasks : RunnerDb(t)
    \/ \E t \in DispTasks : RunnerSink(t)
    \/ \E t \in DispTasks : RunnerExit(t)
    \/ DbWrite
    \/ \E t \in DispTasks : CancelCall(1, t, TRUE)
    \/ \E c \in Cancels : CancelRead(c)
    \/ \E c \in Cancels : CancelFuture(c)
    \/ \E c \in Cancels : CancelIsRunning(c)
    \/ \E c \in Cancels : CancelPM(c)
    \/ \E c \in Cancels : CancelReqRead(c)
    \/ \E c \in Cancels : CancelReqWrite(c)
    \/ \E c \in Cancels : CancelReqStore(c)
    \/ \E c \in Cancels : CancelMarkMap(c)
    \/ \E c \in Cancels : CancelMarkStore(c)
    \/ \E c \in Cancels : CancelMarkSink(c)
    \/ \E t \in DispTasks : WatchAttach(t)
    \/ WatchGet
    \/ WatchCheck

NextWatch == Busy \/ WatchTimeout

SpecWatch == InitWatch /\ [][NextWatch]_vars

\* Scheduling: every thread and process of the service that can take a step
\* takes one; a stream is never closed by anything but the code above.
FairWatch == WF_vars(Busy)

LiveSpecWatch == InitWatch /\ [][NextWatch]_vars /\ FairWatch

\* ======================================================================
\*  The Task Store alone (task_store.py): calls of upsert_task_start,
\*  update_progress and finish_task on two task ids, in any order.  Rows carry
\*  every column but created_at and updated_at.
\* ======================================================================

StoreTasks == {1, 2}
StoreCodes == {"", "SCM-WF02"}
StoreStatuses == {"SUCCESS", "FAILED"}
StoreErrors == {"", "boom"}

Row(t, code, status, pct, msg, err, ref) ==
    [task_id |-> t, scheme_code |-> code, status |-> status,
     percentage |-> pct, message |-> msg, error_message |-> err,
     data_ref |-> ref]

\* The rows a WHERE task_id = ? clause matches.
Matching(tb, t) == {r \in tb : r.task_id = t}

\* upsert_task_start with a seeded fault: a plain INSERT into a table
\* without the primary key.
TaskStore_upsert_task_start_NoConflictClause(tb, t, code, ref) ==
    tb \cup {Row(t, code, "RUNNING", 0, "Initializing", "", ref)}

\* upsert_task_start, lines 81-110: INSERT ... ON CONFLICT(task_id) DO UPDATE
\* of every column but task_id and created_at.
TaskStore_upsert_task_start(tb, t, code, ref) ==
    (tb \ Matching(tb, t))
        \cup {Row(t, code, "RUNNING", 0, "Initializing", "", ref)}

\* update_progress, lines 112-126: UPDATE of percentage, message and status;
\* when no row matched, upsert_task_start(task_id, "", "").
TaskStore_update_progress(tb, t, pct, msg, status) ==
    IF Matching(tb, t) = {}
    THEN TaskStore_upsert_task_start(tb, t, "", "")
    ELSE (tb \ Matching(tb, t))
            \cup {[r EXCEPT !.percentage = pct, !.message = msg,
                            !.status = status] : r \in Matching(tb, t)}

\* finish_task with a seeded fault: a missing row is not created.
TaskStore_finish_task_NoCreate(tb, t, status, msg, err) ==
    (tb \ Matching(tb, t))
        \cup {[r EXCEPT !.percentage = 100, !.message = msg,
                        !.status = status, !.error_message = err]
                : r \in Matching(tb, t)}

\* finish_task, lines 128-144: UPDATE of percentage (100), message, status
\* and error_message; when no row matched, upsert_task_start(task_id, "", "")
\* and finish_task again.
TaskStore_finish_task(tb, t, status, msg, err) ==
    LET tb1 == IF Matching(tb, t) = {}
               THEN TaskStore_upsert_task_start(tb, t, "", "") ELSE tb
    IN  (tb1 \ Matching(tb1, t))
            \cup {[r EXCEPT !.percentage = 100, !.message = msg,
                            !.status = status, !.error_message = err]
                    : r \in Matching(tb1, t)}

UpsertCall(code, ref) == [op |-> "upsert_task_start", a |-> code, b |-> ref]
ProgressCall == [op |-> "update_progress", a |-> "Working", b |-> "RUNNING"]
FinishCall(status, err) == [op |-> "finish_task", a |-> status, b |-> err]

LibFrame == UNCHANGED <<pmVars, pmHist, dispVars, runVars, cancelVars,
                        dispHist, watchVars, watchHist>>

StoreFrame == UNCHANGED <<registry, regLog, dbThread, threads, starter,
                          writerVars, signalVars, singleVars>>

\* A caller applies upsert_task_start(t, code, data_ref); the data_ref is
\* empty exactly when the scheme code is.
StoreUpsert(t, code) ==
    /\ Len(calls[t]) < MaxCalls
    /\ LET ref == IF code = "" THEN "" ELSE "ref"
       IN  /\ table' = TaskStore_upsert_task_start(table, t, code, ref)
           /\ calls' = [calls EXCEPT ![t] = Append(@, UpsertCall(code, ref))]
    /\ StoreFrame /\ LibFrame

\* A caller applies update_progress(t, 50, "Working").
StoreProgress(t) ==
    /\ Len(calls[t]) < MaxCalls
    /\ table' = TaskStore_update_progress(table, t, 50, "Working", "RUNNING")
    /\ calls' = [calls EXCEPT ![t] = Append(@, ProgressCall)]
    /\ StoreFrame /\ LibFrame

\* A caller applies finish_task(t, status, message, error_message), the
\* message being the one the service pairs with the status.
StoreFinish(t, status, err) ==
    /\ Len(calls[t]) < MaxCalls
    /\ table' = TaskStore_finish_task(table, t, status,
                    IF status = "SUCCESS" THEN "Completed" ELSE "Failed", err)
    /\ calls' = [calls EXCEPT ![t] = Append(@, FinishCall(status, err))]
    /\ StoreFrame /\ LibFrame

InitLib == Init /\ hasGpu = FALSE

NextStore ==
    \/ \E t \in StoreTasks, code \in StoreCodes : StoreUpsert(t, code)
    \/ \E t \in StoreTasks : StoreProgress(t)
    \/ \E t \in StoreTasks, status \in StoreStatuses, err \in StoreErrors :
            StoreFinish(t, status, err)

SpecStore == InitLib /\ [][NextStore]_vars

\* ======================================================================
\*  The Algorithm Registry alone (framework.py:40-115): register called
\*  with plugin classes, two of which declare the same code
\* ======================================================================

PluginClasses == {"ScmWf01", "ScmWf02", "ScmWf02Copy"}

\* instance.meta_info["code"] of an instance of the class.
CodeOf(class) == IF class = "ScmWf01" THEN "SCM-WF01" ELSE "SCM-WF02"

Item(code, class, n) == [code |-> code, class |-> class, instance |-> n]

\* The positions of a dict's items that hold the key.
KeyAt(d, code) == {i \in 1..Len(d) : d[i].code = code}

\* d[code] = item with a seeded fault: the item is added even when the key
\* is present.
SetItem_Appends(d, item) == Append(d, item)

\* d[code] = item on a dict kept in insertion order: the value under a key
\* that is present is replaced where it stands, a new key goes last.
SetItem(d, item) ==
    IF KeyAt(d, item.code) = {} THEN Append(d, item)
    ELSE [i \in 1..Len(d) |-> IF d[i].code = item.code THEN item ELSE d[i]]

\* AlgorithmRegistry.get_algorithm: _registry.get(code); None is instance 0.
get_algorithm(code) ==
    IF KeyAt(registry, code) = {} THEN 0
    ELSE registry[CHOOSE i \in KeyAt(registry, code) : TRUE].instance

\* AlgorithmRegistry.get_all_schemes: one meta per item of _registry, here
\* its code.
get_all_schemes == [i \in 1..Len(registry) |-> registry[i].code]

RegFrame == UNCHANGED <<table, calls, dbThread, threads, starter,
                        writerVars, signalVars, singleVars>>

\* AlgorithmRegistry.register(algorithm_cls), lines 78-95: a new instance is
\* made and stored under its code.
Register(class) ==
    /\ Len(regLog) < MaxRegs
    /\ LET item == Item(CodeOf(class), class, Len(regLog) + 1)
       IN  /\ registry' = SetItem(registry, item)
           /\ regLog' = Append(regLog, item)
    /\ RegFrame /\ LibFrame

NextRegistry == \E class \in PluginClasses : Register(class)

SpecRegistry == InitLib /\ [][NextRegistry]_vars

\* ======================================================================
\*  ProgressManager.start_db_writer alone (progress_manager.py:221-280),
\*  called in the parent process by main.bootstrap and by every dispatch,
\*  each on its own thread.  Caller c's Thread object is thread c.
\* ======================================================================

DbwFrame == UNCHANGED <<table, calls, registry, regLog, writerVars,
                        signalVars, singleVars>>

\* Threads that are alive: started, and looping on the DB queue.
AliveWriters == {w \in Starters : threads[w] = "alive"}

\* Lines 224-227: in the main process, return when _db_thread is set and
\* alive; otherwise go on to create one.
DbwCheck(c) ==
    /\ starter[c].pc = "idle"
    /\ starter' = [starter EXCEPT ![c].pc =
                      IF dbThread # 0 /\ threads[dbThread] = "alive"
                      THEN "done" ELSE "create"]
    /\ UNCHANGED <<dbThread, threads>>
    /\ DbwFrame /\ LibFrame

\* Lines 273-278: self._db_thread = threading.Thread(...).
DbwCreate(c) ==
    /\ starter[c].pc = "create"
    /\ threads' = [threads EXCEPT ![c] = "created"]
    /\ dbThread' = c
    /\ starter' = [starter EXCEPT ![c] = [pc |-> "start", thread |-> c]]
    /\ DbwFrame /\ LibFrame

\* Line 279: self._db_thread.start(), on whichever thread the attribute holds
\* now; starting a thread that was started already raises RuntimeError.
DbwStart(c) ==
    /\ starter[c].pc = "start"
    /\ IF threads[dbThread] = "created"
       THEN /\ threads' = [threads EXCEPT ![dbThread] = "alive"]
            /\ starter' = [starter EXCEPT ![c].pc = "done"]
       ELSE /\ starter' = [starter EXCEPT ![c].pc = "raised"]
            /\ UNCHANGED threads
    /\ UNCHANGED dbThread
    /\ DbwFrame /\ LibFrame

NextDbWriter ==
    \/ \E c \in Starters : DbwCheck(c)
    \/ \E c \in Starters : DbwCreate(c)
    \/ \E c \in Starters : DbwStart(c)

SpecDbWriter == InitLib /\ [][NextDbWriter]_vars

\* ======================================================================
\*  The DB writer's _worker alone (progress_manager.py:229-272): runners put
\*  finish events on the DB queue, the writer takes them one at a time and
\*  applies each with the Task Store, whose call returns or raises.
\* ======================================================================

WriterTasks == {1, 2}

WriterFrame ==
    UNCHANGED <<pmVars, pmHist, hasGpu, statusMap, sink, tasksMap, future,
                runVars, cancelVars, dispHist, watchVars, watchHist,
                table, calls, registry, regLog, dbThread, threads, starter,
                signalVars, singleVars>>

\* The test of line 262 with a seeded fault: one more attempt is made.
GivesUp_AfterFour(attempts) == attempts >= 4

\* Line 262: attempts >= 3.
GivesUp(attempts) == attempts >= 3

\* A runner puts its finish event (dispatcher.py:130, 162, 196).
WriterPut(t, status) ==
    /\ puts < MaxEvents
    /\ dbQueue' = Append(dbQueue,
                    FinishEvent(t, status,
                        IF status = "SUCCESS" THEN "Completed" ELSE "Failed",
                        IF status = "FAILED" THEN "boom" ELSE ""))
    /\ puts' = puts + 1
    /\ UNCHANGED <<store, writer, dbStats, tried, handled>>
    /\ WriterFrame

\* Lines 234-243: event = db_queue.get(); attempts = 0.
WriterGet ==
    /\ writer.pc = "get"
    /\ dbQueue # <<>>
    /\ writer' = [pc |-> "try", event |-> Head(dbQueue), attempts |-> 0]
    /\ dbQueue' = Tail(dbQueue)
    /\ tried' = 0
    /\ UNCHANGED <<store, dbStats, puts, handled>>
    /\ WriterFrame

\* Lines 245-260: store.finish_task returns; success is counted and the inner
\* loop is left.
WriterApply ==
    /\ writer.pc = "try"
    /\ LET e == writer.event
       IN  store' = finish_task(store, e.task_id, e.status, e.message,
                                e.error_message)
    /\ dbStats' = [dbStats EXCEPT !.success = @ + 1]
    /\ tried' = tried + 1
    /\ handled' = Append(handled, [event |-> writer.event,
                                   tried |-> tried + 1,
                                   outcome |-> "success"])
    /\ writer' = [writer EXCEPT !.pc = "get"]
    /\ UNCHANGED <<dbQueue, puts>>
    /\ WriterFrame

\* Lines 261-271: store.finish_task raises, in its UPDATE or, when the row
\* was missing, after upsert_task_start has created it; attempts is
\* incremented, and either the event is dropped and fail counted, or the
\* writer sleeps and tries again.
WriterRaise ==
    /\ writer.pc = "try"
    /\ \/ UNCHANGED store
       \/ /\ ~HasRow(store, writer.event.task_id)
          /\ store' = upsert_task_start(store, writer.event.task_id)
    /\ tried' = tried + 1
    /\ IF GivesUp(writer.attempts + 1)
       THEN /\ dbStats' = [dbStats EXCEPT !.fail = @ + 1]
            /\ handled' = Append(handled, [event |-> writer.event,
                                           tried |-> tried + 1,
                                           outcome |-> "fail"])
            /\ writer' = [writer EXCEPT !.pc = "get",
                                        !.attempts = @ + 1]
       ELSE /\ writer' = [writer EXCEPT !.attempts = @ + 1]
            /\ UNCHANGED <<dbStats, handled>>
    /\ UNCHANGED <<dbQueue, puts>>
    /\ WriterFrame

WriterStep == WriterGet \/ WriterApply \/ WriterRaise

NextWriter ==
    \/ \E t \in WriterTasks, status \in Terminal : WriterPut(t, status)
    \/ WriterGet
    \/ WriterApply
    \/ WriterRaise

SpecWriter == InitLib /\ [][NextWriter]_vars

\* Scheduling: the writer is a thread of its own; it takes its next step
\* whenever it has one.
FairWriter == WF_vars(WriterStep)

LiveSpecWriter == InitLib /\ [][NextWriter]_vars /\ FairWriter

\* ======================================================================
\*  ProcessManager.cancel step by step (process_manager.py:158-270): the
\*  lookup, the is_alive test and os.kill are separate steps of the caller,
\*  and of the _escalate thread, between which the worker may exit.
\* ======================================================================

SigTasks == {1}        \* the task that is submitted
KillTargets == {1, 2}  \* the task ids cancel is called with

SignalFrame ==
    UNCHANGED <<dispVars, runVars, cancelVars, dispHist, watchVars,
                watchHist, table, calls, registry, regLog, dbThread,
                threads, starter, writerVars, singleVars>>

PMRet(accepted, status) == [accepted |-> accepted, status |-> status]

Signal(t, sig) ==
    [task |-> t, sig |-> sig,
     process |-> IF IsAlive(t) THEN "alive" ELSE "exited"]

\* An exited process is still a zombie, which os.kill can signal, until a
\* join or is_alive call has reaped it; the monitor's join has done so once
\* it has returned.
MaybeZombie(t) == procState[t] = "exited" /\ monitor[t] # "done"

\* process.is_alive(), lines 183 and 215.
StillAlive(t) == IsAlive(t)

\* A client calls cancel(task_id, force).
KillCall(k, t, force) ==
    /\ killer[k].pc = "idle"
    /\ killer' = [killer EXCEPT ![k] =
                    [IdleKiller EXCEPT !.pc = "lookup", !.task = t,
                                       !.force = force]]
    /\ UNCHANGED <<pmVars, pmHist, escKill, signalled>>
    /\ SignalFrame

\* Lines 169-178: managed = self._processes.get(task_id) under the lock.
\* (gone is history: the task was not tracked, or its process had exited,
\* when the lookup was made.)
KillLookup(k) ==
    /\ killer[k].pc = "lookup"
    /\ killer' = [killer EXCEPT ![k] =
                    IF killer[k].task \in processes
                    THEN [@ EXCEPT !.pc = "is_alive",
                                   !.gone = ~is_running(killer[k].task)]
                    ELSE [@ EXCEPT !.pc = "done", !.gone = TRUE,
                                   !.ret = PMRet(FALSE, "NOT_FOUND")]]
    /\ UNCHANGED <<pmVars, pmHist, escKill, signalled>>
    /\ SignalFrame

\* Lines 180-191: the is_alive test, then cancel_requested = True.
KillAlive(k) ==
    /\ killer[k].pc = "is_alive"
    /\ LET t == killer[k].task
       IN  IF StillAlive(t)
           THEN /\ killer' = [killer EXCEPT ![k].pc = "kill"]
                /\ cancelRequested' = cancelRequested \cup {t}
           ELSE /\ killer' = [killer EXCEPT ![k].pc = "done",
                                  ![k].ret = PMRet(FALSE, "FINISHED")]
                /\ UNCHANGED cancelRequested
    /\ UNCHANGED <<semaphore, processes, shutdownFlag, procState, dying,
                   monitor, escalator, callPc, subRet, pmHist, escKill,
                   signalled>>
    /\ SignalFrame

\* _force_kill (lines 241-270) or _graceful_terminate (lines 198-239):
\* os.kill(pid, sig) returns, for a live process or a zombie, and the call
\* returns KILLED, or TERMINATING with an _escalate thread started.
KillSignal(k) ==
    /\ killer[k].pc = "kill"
    /\ LET t == killer[k].task
           force == killer[k].force
       IN  /\ IsAlive(t) \/ MaybeZombie(t)
           /\ signalled' = signalled \cup
                    {Signal(t, IF force THEN "SIGKILL" ELSE "SIGTERM")}
           /\ \E ignoresTerm \in BOOLEAN :
                dying' = IF IsAlive(t) /\ (force \/ ~ignoresTerm)
                         THEN dying \cup {t} ELSE dying
           /\ escalator' = IF force THEN escalator ELSE escalator \cup {t}
           /\ killer' = [killer EXCEPT ![k].pc = "done",
                            ![k].ret = PMRet(TRUE, IF force THEN "KILLED"
                                                   ELSE "TERMINATING")]
    /\ UNCHANGED <<semaphore, processes, cancelRequested, shutdownFlag,
                   procState, monitor, callPc, subRet, pmHist, escKill>>
    /\ SignalFrame

\* os.kill raises ProcessLookupError: the process has exited and been
\* reaped; the call returns ERROR (lines 230-239, 261-270).
KillRaises(k) ==
    /\ killer[k].pc = "kill"
    /\ procState[killer[k].task] = "exited"
    /\ killer' = [killer EXCEPT ![k].pc = "done",
                                ![k].ret = PMRet(FALSE, "ERROR")]
    /\ UNCHANGED <<pmVars, pmHist, escKill, signalled>>
    /\ SignalFrame

\* _escalate, lines 214-215: the sleep ends and is_alive is tested.
EscalateCheck(t) ==
    /\ t \in escalator
    /\ escalator' = escalator \ {t}
    /\ escKill' = IF StillAlive(t) THEN escKill \cup {t} ELSE escKill
    /\ UNCHANGED <<semaphore, processes, cancelRequested, shutdownFlag,
                   procState, dying, monitor, callPc, subRet, pmHist,
                   killer, signalled>>
    /\ SignalFrame

\* _escalate, line 220: _force_kill; os.kill returns or raises.
EscalateKill(t) ==
    /\ t \in escKill
    /\ escKill' = escKill \ {t}
    /\ \/ /\ IsAlive(t) \/ MaybeZombie(t)
          /\ signalled' = signalled \cup {Signal(t, "SIGKILL")}
          /\ dying' = IF IsAlive(t) THEN dying \cup {t} ELSE dying
       \/ /\ procState[t] = "exited"
          /\ UNCHANGED <<signalled, dying>>
    /\ UNCHANGED <<semaphore, processes, cancelRequested, shutdownFlag,
                   procState, monitor, escalator, callPc, subRet, pmHist,
                   killer>>
    /\ SignalFrame

\* ======================================================================
\*  The singletons alone: threads that call HardwareManager(),
\*  ProcessManager() (get_process_manager) and ProgressManager.get_instance()
\*  while no instance exists yet.  Objects are numbered as they are made.
\* ======================================================================

SingleFrame ==
    UNCHANGED <<table, calls, registry, regLog, dbThread, threads, starter,
                writerVars, signalVars>>

\* Whether __new__ runs under the class lock: ProcessManager's does
\* (process_manager.py:48), HardwareManager's does not
\* (resource_manager.py:18-21).
NewIsLocked(K) == K = "ProcessManager"

\* The thread has the object: the constructor call has returned.
Holds(K, u) == user[K][u].pc = "done"

\* HardwareManager.__new__, line 19, and ProgressManager.get_instance, line
\* 64: the test of cls._instance, without a lock.
SingleTest(K, u) ==
    /\ ~NewIsLocked(K)
    /\ user[K][u].pc = "idle"
    /\ user' = [user EXCEPT ![K][u] =
                  IF single[K].instance = 0
                  THEN [pc |-> "make", obj |-> 0]
                  ELSE IF K = "ProgressManager"
                       THEN [pc |-> "done", obj |-> single[K].instance]
                       ELSE [pc |-> "init", obj |-> single[K].instance]]
    /\ UNCHANGED single
    /\ SingleFrame /\ LibFrame

\* HardwareManager.__new__, lines 20-21: a new object becomes cls._instance
\* and is returned; ProgressManager.get_instance, lines 65-66: cls() makes an
\* object, __init__ (lines 20-28) creates its state, and it becomes
\* cls._instance.
SingleMake(K, u) ==
    /\ user[K][u].pc = "make"
    /\ LET o == single[K].made + 1
       IN  IF K = "ProgressManager"
           THEN /\ single' = [single EXCEPT ![K].instance = o,
                                            ![K].made = o,
                                            ![K].inits = @ + 1]
                /\ user' = [user EXCEPT ![K][u] = [pc |-> "done", obj |-> o]]
           ELSE /\ single' = [single EXCEPT ![K].instance = o,
                                            ![K].made = o]
                /\ user' = [user EXCEPT ![K][u] = [pc |-> "init", obj |-> o]]
    /\ SingleFrame /\ LibFrame

\* ProcessManager.__new__, lines 47-51: test, creation and return under
\* cls._lock.
SingleNewLocked(K, u) ==
    /\ NewIsLocked(K)
    /\ user[K][u].pc = "idle"
    /\ LET o == IF single[K].instance = 0 THEN single[K].made + 1
                ELSE single[K].instance
       IN  /\ single' = [single EXCEPT ![K].instance = o,
                            ![K].made = IF single[K].instance = 0 THEN o
                                        ELSE @]
           /\ user' = [user EXCEPT ![K][u] = [pc |-> "init", obj |-> o]]
    /\ SingleFrame /\ LibFrame

\* __init__, process_manager.py:54-55 and resource_manager.py:24-25: the
\* test of self._initialized.
SingleInitTest(K, u) ==
    /\ user[K][u].pc = "init"
    /\ user' = [user EXCEPT ![K][u].pc =
                  IF user[K][u].obj \in single[K].initialized
                  THEN "done" ELSE "state"]
    /\ UNCHANGED single
    /\ SingleFrame /\ LibFrame

\* __init__, process_manager.py:56-63 and resource_manager.py:26-33:
\* _initialized is set and the instance state is created (_processes,
\* _semaphore, _shutdown; has_gpu and the pools).
SingleInitState(K, u) ==
    /\ user[K][u].pc = "state"
    /\ single' = [single EXCEPT
                    ![K].initialized = @ \cup {user[K][u].obj},
                    ![K].inits = @ + 1]
    /\ user' = [user EXCEPT ![K][u].pc = "done"]
    /\ SingleFrame /\ LibFrame

NextSingle ==
    \/ \E K \in Singletons, u \in Users : SingleTest(K, u)
    \/ \E K \in Singletons, u \in Users : SingleMake(K, u)
    \/ \E K \in Singletons, u \in Users : SingleNewLocked(K, u)
    \/ \E K \in Singletons, u \in Users : SingleInitTest(K, u)
    \/ \E K \in Singletons, u \in Users : SingleInitState(K, u)

SpecSingle == InitLib /\ [][NextSingle]_vars

\* ======================================================================
\*  Repeated cancellation: a CPU task on a host without GPU whose process
\*  starts, and clients that call cancel_task again once the previous call
\*  has returned
\* ======================================================================

\* A further cancel_task call, made after the previous one returned.
CancelAgain(c, t, force) ==
    /\ c > 1
    /\ cancel[c - 1].pc = "returned"
    /\ cancel[c - 1].task = t
    /\ CancelCall(c, t, force)

InitRepeat == Init /\ hasGpu = FALSE

NextRepeat ==
    \/ \E t \in DispTasks, code \in Schemes : DispatchCpu(t, code)
    \/ \E t \in DispTasks : SubmitEnter(t)
    \/ \E t \in DispTasks : SubmitStart(t)
    \/ \E t \in DispTasks : MonitorLookup(t)
    \/ \E t \in DispTasks : MonitorFinish(t)
    \/ \E t \in DispTasks : Escalate(t)
    \/ \E t \in DispTasks : ProcDie(t)
    \/ \E t \in DispTasks : RunnerLookup(t)
    \/ \E t \in DispTasks : RunnerCheckCancel(t)
    \/ \E t \in DispTasks : RunnerPrepare(t)
    \/ \E t \in DispTasks : RunnerReportCheck(t)
    \/ \E t \in DispTasks : RunnerReportWrite(t)
    \/ \E t \in DispTasks : RunnerExecReturn(t)
    \/ \E t \in DispTasks : RunnerExecRaise(t)
    \/ \E t \in DispTasks : RunnerMap(t)
    \/ \E t \in DispTasks : RunnerDb(t)
    \/ \E t \in DispTasks : RunnerSink(t)
    \/ \E t \in DispTasks : RunnerExit(t)
    \/ DbWrite
    \/ \E t \in DispTasks, force \in BOOLEAN : CancelCall(1, t, force)
    \/ \E c \in Cancels, t \in DispTasks, force \in BOOLEAN : CancelAgain(c, t, force)
    \/ \E c \in Cancels : CancelRead(c)
    \/ \E c \in Cancels : CancelFuture(c)
    \/ \E c \in Cancels : CancelIsRunning(c)
    \/ \E c \in Cancels : CancelPM(c)
    \/ \E c \in Cancels : CancelReqRead(c)
    \/ \E c \in Cancels : CancelReqWrite(c)
    \/ \E c \in Cancels : CancelReqStore(c)
    \/ \E c \in Cancels : CancelMarkMap(c)
    \/ \E c \in Cancels : CancelMarkStore(c)
    \/ \E c \in Cancels : CancelMarkSink(c)
    \/ \E c \in Cancels : WatcherSeesExit(c)
    \/ \E c \in Cancels : WatcherTimeout(c)
    \/ \E c \in Cancels : WatcherMark(c)

SpecRepeat == InitRepeat /\ [][NextRepeat]_vars

\* ======================================================================
\*  The Process Manager on its own: submit, cancel and shutdown are called
\*  directly, and the target function returns (or raises) at any time.
\* ======================================================================

\* A caller invokes ProcessManager.submit(target, task_id, ...).
PMSubmit(t) ==
    /\ callPc[t] = "idle"
    /\ callPc' = [callPc EXCEPT ![t] = "enter"]
    /\ UNCHANGED <<semaphore, processes, cancelRequested, shutdownFlag, procState,
                   dying, monitor, escalator, subRet, pmHist>>
    /\ NoDisp

\* The target function of a worker returns or raises: the process exits.
TargetReturn(t) ==
    /\ IsAlive(t)
    /\ t \notin dying
    /\ procState' = [procState EXCEPT ![t] = "exited"]
    /\ UNCHANGED <<semaphore, processes, cancelRequested, shutdownFlag, dying,
                   monitor, escalator, callPc, subRet, pmHist>>
    /\ NoDisp

NextPM ==
    \/ \E t \in Tasks : PMSubmit(t)
    \/ \E t \in Tasks : SubmitEnter(t)
    \/ \E t \in Tasks : SubmitWake(t)
    \/ \E t \in Tasks : SubmitStart(t)
    \/ \E t \in Tasks : SubmitStartFail(t)
    \/ \E t \in Tasks : MonitorLookup(t)
    \/ \E t \in Tasks : MonitorFinish(t)
    \/ \E t \in Tasks, force \in BOOLEAN : PMCancel(t, force)
    \/ \E t \in Tasks : Escalate(t)
    \/ \E t \in Tasks : ProcDie(t)
    \/ \E t \in Tasks : TargetReturn(t)
    \/ \E cancel_pending \in BOOLEAN : Shutdown(cancel_pending)

\* A CPU-only host: every task goes through the Process Manager.
InitPM == Init /\ hasGpu = FALSE

SpecPM == InitPM /\ [][NextPM]_vars

\* Scheduling the code relies on: threads that can run do run (monitor
\* threads, a submit holding a slot, a waiter when a slot stays free), the
\* OS ends a process with a fatal signal pending, and running workers
\* eventually exit.
FairPM ==
    \A t \in Tasks :
        /\ WF_vars(MonitorLookup(t))
        /\ WF_vars(MonitorFinish(t))
        /\ WF_vars(ProcDie(t))
        /\ WF_vars(TargetReturn(t))
        /\ WF_vars(SubmitEnter(t))
        /\ WF_vars(SubmitWake(t))
        /\ WF_vars(SubmitStart(t) \/ SubmitStartFail(t))

LiveSpecPM == InitPM /\ [][NextPM]_vars /\ FairPM

\* ======================================================================
\*  Thread-pool tasks: a host with GPU, a GPU scheme dispatched to the
\*  thread pool, and clients whose cancel_task calls may overlap
\* ======================================================================

InitThread == Init /\ hasGpu = TRUE

\* The steps taken by threads of the service: the dispatch call going on,
\* pool threads, the runner, the DB writer and cancel_task calls under way.
ThreadBusy ==
    \/ \E t \in DispTasks : DispatchStoreFuture(t)
    \/ \E t \in DispTasks : ThreadStart(t)
    \/ \E t \in DispTasks : ThreadFinish(t)
    \/ \E t \in DispTasks : RunnerCheckCancel(t)
    \/ \E t \in DispTasks : RunnerPrepare(t)
    \/ \E t \in DispTasks : RunnerReportCheck(t)
    \/ \E t \in DispTasks : RunnerReportWrite(t)
    \/ \E t \in DispTasks : RunnerExecReturn(t)
    \/ \E t \in DispTasks : RunnerExecRaise(t)
    \/ \E t \in DispTasks : RunnerMap(t)
    \/ \E t \in DispTasks : RunnerDb(t)
    \/ \E t \in DispTasks : RunnerSink(t)
    \/ DbWrite
    \/ \E c \in Cancels : CancelRead(c)
    \/ \E c \in Cancels : CancelFuture(c)
    \/ \E c \in Cancels : CancelIsRunning(c)
    \/ \E c \in Cancels : CancelReqRead(c)
    \/ \E c \in Cancels : CancelReqWrite(c)
    \/ \E c \in Cancels : CancelReqStore(c)
    \/ \E c \in Cancels : CancelMarkMap(c)
    \/ \E c \in Cancels : CancelMarkStore(c)
    \/ \E c \in Cancels : CancelMarkSink(c)

NextThread ==
    \/ \E t \in DispTasks, code \in Schemes : DispatchThread(t, code)
    \/ \E c \in Cancels, t \in DispTasks : CancelCall(c, t, FALSE)
    \/ ThreadBusy

SpecThread == InitThread /\ [][NextThread]_vars

\* Scheduling: a thread of the service that can take a step takes one.
FairThread == WF_vars(ThreadBusy)

LiveSpecThread == InitThread /\ [][NextThread]_vars /\ FairThread

\* ProcessManager.cancel step by step, on one submitted task.
NextSignal ==
    \/ \E t \in SigTasks : PMSubmit(t)
    \/ \E t \in SigTasks : SubmitEnter(t)
    \/ \E t \in SigTasks : SubmitStart(t)
    \/ \E t \in SigTasks : MonitorLookup(t)
    \/ \E t \in SigTasks : MonitorFinish(t)
    \/ \E t \in SigTasks : ProcDie(t)
    \/ \E t \in SigTasks : TargetReturn(t)
    \/ \E k \in Killers, t \in KillTargets, force \in BOOLEAN :
            KillCall(k, t, force)
    \/ \E k \in Killers : KillLookup(k)
    \/ \E k \in Killers : KillAlive(k)
    \/ \E k \in Killers : KillSignal(k)
    \/ \E k \in Killers : KillRaises(k)
    \/ \E t \in SigTasks : EscalateCheck(t)
    \/ \E t \in SigTasks : EscalateKill(t)

SpecSignal == InitPM /\ [][NextSignal]_vars

\* ----------------------------------------------------------------------
\* C4: every semaphore slot acquired by a submit call is released exactly
\* once: never more releases than acquisitions, one release once the
\* monitor thread has finished (natural exit, SIGTERM or SIGKILL) or once
\* submit's error path has returned, none while the process is alive, and
\* the free slots never exceed max_workers.
C4_SlotReleasedExactlyOnce ==
    /\ semaphore <= MaxWorkers
    /\ \A t \in Tasks :
        /\ acquired[t] <= 1
        /\ released[t] <= acquired[t]
        /\ (monitor[t] = "done" => released[t] = 1)
        /\ (callPc[t] = "returned" /\ subRet[t] = "false" /\ acquired[t] = 1
                => released[t] = 1)
        /\ (IsAlive(t) => released[t] = 0)

\* A force-killed worker whose slot came back, all slots free again.
C4_Witness ==
    \E t \in Tasks :
        /\ t \in cancelRequested
        /\ monitor[t] = "done"
        /\ released[t] = 1
        /\ semaphore = MaxWorkers

C7_Outcome ==
    \A t \in Tasks :
        /\ (callPc[t] = "returned" /\ subRet[t] = "false" /\ acquired[t] = 0)
                => shutdownFlag
        /\ (t \in waited /\ callPc[t] = "returned") =>
                \/ subRet[t] = "true" /\ procState[t] # "none"
                \/ subRet[t] = "false" /\ procState[t] = "none" /\ released[t] = 1

C7_WaitStep ==
    \A t \in Tasks :
        (callPc[t] = "wait" /\ callPc'[t] # "wait")
            => (semaphore > 0 /\ semaphore' = semaphore - 1
                /\ callPc'[t] = "acquired")

C1_TerminalRowFrozen ==
    [][\A t \in Tasks :
         store[t].status \in Terminal =>
            /\ store'[t].status = store[t].status
            /\ store'[t].percentage = store[t].percentage
            /\ store'[t].error_message = store[t].error_message]_vars

C8_StorePercentageMonotonic ==
    [][\A t \in Tasks :
         HasRow(store, t) => store'[t].percentage >= store[t].percentage]_vars

\* C9: cancel_task on a task that had already reached SUCCESS, FAILED or
\* CANCELLED when it was called returns accepted=false with the message
\* "Task already finished", having sent no signal and written nothing to
\* the status map, the Task Store or the sink.
C9_CancelOfTerminalRejected ==
    \A c \in Cancels :
        (cancel[c].pc = "returned" /\ cancel[c].entry = "terminal") =>
            /\ ~cancel[c].ret.accepted
            /\ cancel[c].ret.message = "Task already finished"
            /\ ~cancel[c].wrote

\* C10: cancel_task on a task id that was never dispatched returns status
\* NOT_FOUND with accepted=false and leaves the Task Store without a row
\* for it.
C10_CancelOfUnknownNotFound ==
    \A c \in Cancels :
        (/\ cancel[c].pc = "returned"
         /\ cancel[c].entry = "never"
         /\ callPc[cancel[c].task] = "idle") =>
            /\ cancel[c].ret.status = "NOT_FOUND"
            /\ ~cancel[c].ret.accepted
            /\ ~HasRow(store, cancel[c].task)

\* ======================================================================
\*  Properties of repeated cancellation (SpecRepeat)
\* ======================================================================

\* The cancel_task call has returned after ProcessManager.cancel sent a
\* signal for it (SIGTERM: TERMINATING; SIGKILL: "Force killed").
SentSignal(c) ==
    /\ cancel[c].pc = "returned"
    /\ \/ cancel[c].ret.status = "TERMINATING"
       \/ cancel[c].ret.message = "Force killed"

SinkCount(t, status) ==
    Cardinality({i \in 1..Len(sink) : sink[i] = Result(t, status)})

\* C11: of two cancel_task calls for one task with the same force flag, the
\* second made after the first returned, at most one signals the worker
\* process, and the task is reported CANCELLED to the sink at most once.
C11_RepeatedCancelActsOnce ==
    \A c \in Cancels \ {1} :
        (/\ cancel[c].pc = "returned"
         /\ cancel[c].task = cancel[c - 1].task
         /\ cancel[c].force = cancel[c - 1].force) =>
            /\ ~(SentSignal(c - 1) /\ SentSignal(c))
            /\ SinkCount(cancel[c].task, "CANCELLED") <= 1

\* A forced cancel_task call that follows a call which returned TERMINATING
\* for the same task.
ForcedAfterTerminating(c) ==
    /\ c > 1
    /\ cancel[c].pc # "idle"
    /\ cancel[c].force
    /\ cancel[c].task = cancel[c - 1].task
    /\ cancel[c - 1].ret.status = "TERMINATING"

C12_KillStep ==
    \A c \in Cancels \ {1} :
        (/\ ForcedAfterTerminating(c)
         /\ cancel[c].pc = "pmcancel"
         /\ cancel'[c].pc # "pmcancel"
         /\ is_running(cancel[c].task)) =>
            /\ cancel[c].task \in dying'
            /\ cancel'[c].pc = "mark_map"
            /\ cancel'[c].msg = "Force killed"

C12_ReadStep ==
    \A c \in Cancels \ {1} :
        (/\ ForcedAfterTerminating(c)
         /\ cancel[c].pc = "read"
         /\ cancel'[c].pc # "read") =>
            IF statusMap[cancel[c].task].status \in Terminal
            THEN /\ cancel'[c].pc = "returned"
                 /\ cancel'[c].ret = Ret(FALSE, "Task already finished",
                                         statusMap[cancel[c].task].status)
                 /\ dying' = dying
            ELSE cancel'[c].pc = "future"

C12_Returns ==
    \A c \in Cancels \ {1} :
        (/\ ForcedAfterTerminating(c)
         /\ cancel[c].pc = "returned"
         /\ cancel[c].msg = "Force killed") =>
            cancel[c].ret = Ret(TRUE, "Force killed", "CANCELLED")

UnknownSchemeReturn(t) ==
    /\ callPc[t] = "idle"
    /\ callPc'[t] = "returned"
    /\ statusMap'[t] = statusMap[t]

\* C14: dispatch with an unregistered scheme_code starts no worker, leaves
\* the store row FAILED with a non-empty error_message, and has called the
\* sink exactly once, with FAILED for that task, when it returns.
C14_UnknownSchemeFailsFast ==
    [][\A t \in Tasks :
         UnknownSchemeReturn(t) =>
            /\ store'[t].status = "FAILED"
            /\ store'[t].percentage = 100
            /\ store'[t].error_message # ""
            /\ sink' = Append(sink, Result(t, "FAILED"))
            /\ procState'[t] = "none" /\ monitor'[t] = "none"
            /\ future'[t] = "none" /\ runner'[t] = "none"
            /\ semaphore' = semaphore]_vars

\* An unknown scheme was dispatched: FAILED in the store and in the sink,
\* nothing in the status map, no worker.
C14_Witness ==
    \E t \in DispTasks :
        /\ callPc[t] = "returned"
        /\ statusMap[t] = NoEntry
        /\ store[t].status = "FAILED"
        /\ SinkCount(t, "FAILED") = 1
        /\ procState[t] = "none"

\* C15: when ProcessManager.submit has rejected the job inside dispatch (it
\* returned False), the task is FAILED in the status map and in the Task
\* Store and a FAILED result is in the sink; it is not left QUEUED or RUNNING.
C15_RejectedSubmitFails ==
    \A t \in DispTasks :
        (callPc[t] = "returned" /\ subRet[t] = "false") =>
            /\ statusMap[t].status \notin {"QUEUED", "RUNNING"}
            /\ store[t].status \notin {"QUEUED", "RUNNING"}
            /\ SinkCount(t, "FAILED") >= 1

\* No cancel_task call has been made.
NoCancelRequested == \A c \in Cancels : cancel[c].pc = "idle"

\* C17: a runner that has ended on an exception other than the cancel signal
\* (no cancel was requested) has set the status map to FAILED, has put
\* finish(FAILED) on the DB queue (applied or still waiting) and has called
\* the sink with FAILED.
C17_RaiseMirrorsFailed ==
    \A t \in DispTasks :
        (runner[t] = "crashed" /\ NoCancelRequested) =>
            /\ statusMap[t].status = "FAILED"
            /\ \/ store[t].status = "FAILED"
               \/ \E i \in 1..Len(dbQueue) :
                    dbQueue[i].task_id = t /\ dbQueue[i].status = "FAILED"
            /\ SinkCount(t, "FAILED") = 1

\* C18: a runner that has ended after observing a cancel (its handler wrote
\* CANCELLED / "Cancellation requested" to the status map) has called the
\* sink with CANCELLED.
C18_CancelMirrorsSink ==
    \A t \in DispTasks :
        (/\ runner[t] \in {"done", "crashed"}
         /\ statusMap[t] = [status |-> "CANCELLED", percentage |-> 100,
                            message |-> "Cancellation requested"]) =>
            SinkCount(t, "CANCELLED") >= 1

\* ======================================================================
\*  Properties of the service under fair scheduling (LiveSpec)
\* ======================================================================

\* The four places agree on SUCCESS for task t.
Succeeded(t) ==
    /\ statusMap[t] = [status |-> "SUCCESS", percentage |-> 100,
                       message |-> "Completed"]
    /\ store[t].status = "SUCCESS"
    /\ store[t].percentage = 100
    /\ SinkCount(t, "SUCCESS") = 1

Replay(entry) == Event(entry.percentage, entry.message)

C20_TerminalClosesStream ==
    (StreamOpen /\ statusMap[stream.task].status \in Terminal)
        ~> (stream.pc = "closed")

C23_CancelResultStatus ==
    \A c \in Cancels :
        cancel[c].pc = "returned" =>
            cancel[c].ret.status \in {"CANCELLED", "TERMINATING",
                                      "CANCEL_REQUESTED", "NOT_FOUND", "ERROR"}

\* ======================================================================
\*  Properties of the Task Store (SpecStore)
\* ======================================================================

\* Task id t has had finish_task alone, and u upsert_task_start followed by
\* the same finish_task.
FinishAloneAndAfterStart(t, u) ==
    /\ t # u
    /\ Len(calls[t]) = 1
    /\ Len(calls[u]) = 2
    /\ calls[t][1].op = "finish_task"
    /\ calls[u][1].op = "upsert_task_start"
    /\ calls[u][2] = calls[t][1]

\* A row without its key.
Record(r) == [scheme_code |-> r.scheme_code, status |-> r.status,
              percentage |-> r.percentage, message |-> r.message,
              error_message |-> r.error_message, data_ref |-> r.data_ref]

\* C24 (as stated): finish alone on an absent task id leaves the same record
\* as upsert_task_start(scheme_code, data_ref) followed by that finish.
C24_FinishAloneSameRecord ==
    \A t, u \in StoreTasks :
        FinishAloneAndAfterStart(t, u) =>
            {Record(r) : r \in Matching(table, t)}
                = {Record(r) : r \in Matching(table, u)}

\* C24 (amended): both leave one row, with the same status, percentage,
\* message and error_message; finish alone leaves scheme_code and data_ref
\* empty, the other keeps those given to upsert_task_start.
C24_FinishAloneSameTerminalFields ==
    \A t, u \in StoreTasks :
        FinishAloneAndAfterStart(t, u) =>
            /\ Cardinality(Matching(table, t)) = 1
            /\ Cardinality(Matching(table, u)) = 1
            /\ \A rt \in Matching(table, t), ru \in Matching(table, u) :
                /\ rt.status = ru.status
                /\ rt.percentage = ru.percentage
                /\ rt.message = ru.message
                /\ rt.error_message = ru.error_message
                /\ rt.scheme_code = "" /\ rt.data_ref = ""
                /\ ru.scheme_code = calls[u][1].a
                /\ ru.data_ref = calls[u][1].b

C24_Witness ==
    \E t, u \in StoreTasks :
        /\ FinishAloneAndAfterStart(t, u)
        /\ calls[u][1].a # ""
        /\ calls[t][1].b = "boom"

\* Every task id that has had a call has exactly one row.
OneRowPerTask ==
    \A t \in StoreTasks :
        Cardinality(Matching(table, t)) = IF calls[t] = <<>> THEN 0 ELSE 1

\* The step applies to t the finish_task call that was last applied to it.
FinishRepeated(t) ==
    /\ calls[t] # <<>>
    /\ calls[t][Len(calls[t])].op = "finish_task"
    /\ calls'[t] = Append(calls[t], calls[t][Len(calls[t])])

\* C25: applying finish_task a second time with the same arguments leaves
\* every row as it was, and the store holds exactly one row per task id after
\* any sequence of upsert_task_start, update_progress and finish_task calls.
C25_FinishIdempotentOneRow ==
    /\ []OneRowPerTask
    /\ [][\A t \in StoreTasks : FinishRepeated(t) => table' = table]_vars

C25_Witness ==
    \E t \in StoreTasks :
        /\ Len(calls[t]) = 3
        /\ calls[t][1].op = "upsert_task_start"
        /\ calls[t][2].op = "finish_task"
        /\ calls[t][3] = calls[t][2]
        /\ Cardinality(Matching(table, t)) = 1

\* ======================================================================
\*  Properties of the executor choice (Spec)
\* ======================================================================

\* C26: get_executor returns one of the two pools, the thread pool exactly
\* for the preference "GPU" on a host with GPU; on a host without GPU no job
\* is given to the thread pool and a runner runs only in a process started
\* by the Process Manager.
C26_ExecutorChoice ==
    /\ \A pref \in {"CPU", "GPU"} :
          /\ get_executor(pref) \in {"cpu_pool", "gpu_pool"}
          /\ get_executor(pref) = "gpu_pool" <=> (pref = "GPU" /\ hasGpu)
    /\ ~hasGpu =>
          \A t \in DispTasks :
              /\ future[t] = "none"
              /\ runner[t] # "none" => (acquired[t] >= 1 /\ procState[t] # "none")

C26_Witness ==
    /\ ~hasGpu
    /\ get_executor(resource_type("SCM-WF01")) = "cpu_pool"
    /\ \E t \in DispTasks : runner[t] = "exec" /\ IsAlive(t) /\ t \in processes

\* ======================================================================
\*  Properties of the Algorithm Registry (SpecRegistry)
\* ======================================================================

\* The instance made by the last register call for the code; 0 when none.
LastRegistered(code) ==
    LET at == {i \in 1..Len(regLog) : regLog[i].code = code}
    IN  IF at = {} THEN 0
        ELSE regLog[CHOOSE i \in at : \A j \in at : j <= i].instance

\* C27: after any sequence of register calls, get_algorithm(code) is the
\* instance most recently registered for the code (none when no call named
\* it), the registry holds one item per registered code, and
\* get_all_schemes lists each registered code once.
C27_RegistryLastWriteWins ==
    /\ \A code \in {"SCM-WF01", "SCM-WF02"} :
          /\ get_algorithm(code) = LastRegistered(code)
          /\ Cardinality(KeyAt(registry, code))
                = IF LastRegistered(code) = 0 THEN 0 ELSE 1
          /\ Cardinality({i \in 1..Len(get_all_schemes) :
                              get_all_schemes[i] = code})
                = IF LastRegistered(code) = 0 THEN 0 ELSE 1

C27_Witness ==
    /\ Len(regLog) = 3
    /\ regLog[1].class = "ScmWf02"
    /\ regLog[2].class = "ScmWf01"
    /\ regLog[3].class = "ScmWf02Copy"
    /\ get_algorithm("SCM-WF02") = 3
    /\ get_all_schemes = <<"SCM-WF02", "SCM-WF01">>

\* ======================================================================
\*  Properties of the writers of the Task Store and of the status map (Spec)
\* ======================================================================

\* C28: every change of the tasks table is made by the DB-writer thread
\* applying the event at the head of the DB queue.
C28_StoreSingleWriter ==
    [][store' # store =>
          /\ dbQueue # <<>>
          /\ dbQueue' = Tail(dbQueue)
          /\ store' = finish_task(store, Head(dbQueue).task_id,
                                  Head(dbQueue).status, Head(dbQueue).message,
                                  Head(dbQueue).error_message)]_vars

\* ======================================================================
\*  Properties of the DB writer's start (SpecDbWriter)
\* ======================================================================

\* C29: at most one DB-writer thread is alive, start_db_writer being called
\* by several threads at once.
C29_OneDbWriter == Cardinality(AliveWriters) <= 1

\* The status transitions of a task: the entry is created, then QUEUED,
\* then RUNNING, then possibly CANCEL_REQUESTED, then a terminal status; a
\* QUEUED task may be cancelled or fail before it runs.
StatusStep(a, b) ==
    \/ a = b
    \/ a = ""
    \/ a = "QUEUED" /\ b \in {"RUNNING", "CANCEL_REQUESTED"} \cup Terminal
    \/ a = "RUNNING" /\ b \in {"CANCEL_REQUESTED"} \cup Terminal
    \/ a = "CANCEL_REQUESTED" /\ b \in Terminal

\* C30: in the status map a task's status moves only along QUEUED, RUNNING,
\* CANCEL_REQUESTED, terminal: it never leaves a terminal status and never
\* returns from CANCEL_REQUESTED to RUNNING.
C30_StatusMapTransitions ==
    [][\A t \in DispTasks :
          StatusStep(statusMap[t].status, statusMap'[t].status)]_vars

\* ======================================================================
\*  Properties of update_progress on an absent row (SpecStore)
\* ======================================================================

\* C31: update_progress(t, p, m, s) on a task id that has no row leaves a
\* row for t whose percentage is p, message is m and status is s.
C31_ProgressOnAbsentRowApplied ==
    \A t \in StoreTasks :
        calls[t] = <<ProgressCall>> =>
            /\ Matching(table, t) # {}
            /\ \A r \in Matching(table, t) :
                /\ r.percentage = 50
                /\ r.message = ProgressCall.a
                /\ r.status = ProgressCall.b

\* ======================================================================
\*  Properties of the DB writer's loop (LiveSpecWriter)
\* ======================================================================

\* The events counted so far, by outcome.
Outcomes(o) == {i \in 1..Len(handled) : handled[i].outcome = o}

\* At most 3 store calls per event; each event the writer is done with has
\* been counted once, as a success or as a failure; it is counted as a
\* failure exactly when its third call raised.
WriterCounts ==
    /\ tried <= 3
    /\ dbStats.success = Cardinality(Outcomes("success"))
    /\ dbStats.fail = Cardinality(Outcomes("fail"))
    /\ dbStats.success + dbStats.fail = Len(handled)
    /\ \A i \in 1..Len(handled) :
        /\ handled[i].tried \in 1..3
        /\ handled[i].outcome = "fail" => handled[i].tried = 3

\* C32: for each event taken from the DB queue the writer makes at most 3
\* attempts and increments exactly one of the success and fail counters; it
\* drops the event after the third failure and goes on to the next one, so
\* every event put on the queue is eventually taken and counted.
C32_WriterRetriesCountsAndGoesOn ==
    /\ []WriterCounts
    /\ \A n \in 1..MaxEvents : (puts >= n) ~> (Len(handled) >= n)

C32_Witness ==
    /\ Len(handled) >= 2
    /\ handled[1].outcome = "fail"
    /\ handled[2].outcome = "success"
    /\ handled[2].tried = 2

\* ======================================================================
\*  Properties of the signals ProcessManager sends (SpecSignal)
\* ======================================================================

\* C33: cancel on a task that is not tracked or whose process has already
\* exited returns accepted=false, and no SIGTERM or SIGKILL is sent to a
\* process that has already exited, by cancel or by the escalator thread,
\* whatever the order of the process's exit and the cancel.
C33_NoSignalAfterExit ==
    /\ \A k \in Killers :
            killer[k].pc = "done" /\ killer[k].gone
                => ~killer[k].ret.accepted
    /\ \A s \in signalled : s.process = "alive"

\* ======================================================================
\*  Properties of shutdown (SpecPM)
\* ======================================================================

\* C34: once shutdown has been called no new subprocess is started: no
\* process starts in a state where _shutdown is set, whether its submit
\* was called afterwards or was already waiting for a slot.
C34_NoStartAfterShutdown ==
    [][shutdownFlag =>
          \A t \in Tasks : procState[t] = "none" => procState'[t] = "none"]_vars

\* ======================================================================
\*  Properties of the future map (LiveSpecThread)
\* ======================================================================

FutureOver(t) == future[t] \in {"done", "cancelled"}

\* The task is CANCELLED in the status map and in the Task Store.
EndedCancelled(t) ==
    /\ statusMap[t].status = "CANCELLED"
    /\ store[t].status = "CANCELLED"

\* C35: once the future of a thread-pool task is done or cancelled its entry
\* leaves the future map for good, whether the future was over before or
\* after dispatch stored it; a task whose future.cancel() succeeded never
\* runs its runner and ends CANCELLED.
C35_FutureMapCleanedAndCancelFinal ==
    \A t \in DispTasks :
        /\ FutureOver(t) ~> [](t \notin tasksMap)
        /\ [](future[t] = "cancelled" => runner[t] = "none")
        /\ (future[t] = "cancelled") ~> []EndedCancelled(t)

\* ======================================================================
\*  Properties of the singletons (SpecSingle)
\* ======================================================================

\* One object of the class was made, its state was created once, and the
\* threads that have an object have the same one.
OneObject(K) ==
    /\ single[K].made <= 1
    /\ single[K].inits <= 1
    /\ \A u, v \in Users :
            Holds(K, u) /\ Holds(K, v) => user[K][u].obj = user[K][v].obj

\* C36: when threads make the first use of a singleton class concurrently,
\* one object is made and its state is created once; every thread gets that
\* object, and the state is not created again once a thread has the object.
C36_SingletonsInitOnce ==
    /\ [](\A K \in Singletons : OneObject(K))
    /\ [][\A K \in Singletons :
            (\E u \in Users : Holds(K, u))
                => single'[K].inits = single[K].inits]_vars

\* ======================================================================
\*  Properties of a stream that attaches again (SpecWatch)
\* ======================================================================

\* The runner of t makes a progress_queue.put of report_progress.
RunnerPuts(t) ==
    /\ runner[t] \in {"rp0w", "upw", "rp100w"}
    /\ runner'[t] # runner[t]

\* A watcher that attached after an earlier one had detached is waiting on t.
Reattached(t) ==
    /\ stream.attaches = 2
    /\ StreamOpen
    /\ stream.task = t

C38_TerminalMeansHundred ==
    \A t \in DispTasks :
        /\ store[t].status \in Terminal => store[t].percentage = 100
        /\ statusMap[t].status \in Terminal => statusMap[t].percentage = 100

\* A cancel request was written over a running task that had reported
\* progress, and the task is now terminal in the map and in the store.
C38_Witness ==
    \E t \in DispTasks :
        /\ t \in coopReq
        /\ reports[t] > 0
        /\ statusMap[t].status \in Terminal
        /\ store[t].status \in Terminal

\* ======================================================================
\*  Properties of the end of a task (LiveSpecService)
\* ======================================================================

\* C39: every task that dispatch has been called with has, at some time
\* afterwards, a terminal status in the Task Store, the DB writer running,
\* also when its worker exits without writing a result.
C39_AcceptedTaskEndsTerminal ==
    \A t \in DispTasks :
        <>(callPc[t] # "idle") => <>(store[t].status \in Terminal)

\* ======================================================================
\*  Properties of the result given to the sink (Spec)
\* ======================================================================

\* The positions of the sink's results for task t.
SinkResults(t) == {i \in 1..Len(sink) : sink[i].task_id = t}

\* Nothing is left to run for t: dispatch has returned, the worker has
\* exited (or the pool job is over) and its monitor has cleaned up, the DB
\* queue is drained, and no cancel_task call, watcher thread or escalator
\* is under way.
Quiescent(t) ==
    /\ callPc[t] = "returned"
    /\ procState[t] # "alive"
    /\ future[t] \notin {"pending", "running"}
    /\ monitor[t] \in {"none", "done"}
    /\ t \notin escalator
    /\ dbQueue = <<>>
    /\ \A c \in Cancels :
        /\ cancel[c].pc \in {"idle", "returned"}
        /\ watcher[c] \in {"none", "done"}

\* C40: send_result is called at most once for a dispatched task, and once
\* nothing is left to run the status given to the sink, the status in the
\* status map and the status in the Task Store are one terminal status.
C40_OneResultAndAgreement ==
    \A t \in DispTasks :
        /\ Cardinality(SinkResults(t)) <= 1
        /\ Quiescent(t) =>
            \A i \in SinkResults(t) :
                /\ sink[i].status \in Terminal
                /\ statusMap[t].status = sink[i].status
                /\ store[t].status = sink[i].status

====
